---------------------------- MODULE Spec2Model ----------------------------
(***************************************************************************)
(* A model of lemkpg: the SQL assembly of LemkPgApi / AsyncLemkPgApi       *)
(* (src/lemkpg/__init__.py) and of the helpers of LemkPgUtils              *)
(* (src/lemkpg/utils.py): get_conditions, get_query_result, execute_query. *)
(*                                                                         *)
(* SQL text is modelled by TLA+ strings, built with \o exactly as the      *)
(* f-strings of the source build it.  Python values that can be of several *)
(* types (an optional argument, an element of a condition list, a return   *)
(* value) are records [t, s, items]: t is the Python type name, s the text *)
(* of a str (or the decimal text of an int), items the elements of a list  *)
(* or tuple.                                                               *)
(***************************************************************************)
EXTENDS Naturals, Sequences, FiniteSets, TLC

-----------------------------------------------------------------------------
(* Bounds of the model *)

\* longest condition list handed directly to get_conditions
MaxConds == 2
\* most rows a result set of the modelled database holds
MaxRows == 2
\* suspending calls in flight at once on one API object
MaxCalls == 2

-----------------------------------------------------------------------------
(* Python values *)

PyNone == [t |-> "NoneType", s |-> "None", items |-> <<>>]
PyStr(x) == [t |-> "str", s |-> x, items |-> <<>>]
PyInt(x) == [t |-> "int", s |-> x, items |-> <<>>]
PyTrue == [t |-> "bool", s |-> "True", items |-> <<>>]
PyFalse == [t |-> "bool", s |-> "False", items |-> <<>>]
PyTuple(xs) == [t |-> "tuple", s |-> "", items |-> xs]
PyList(xs) == [t |-> "list", s |-> "", items |-> xs]
\* a dict: items are its (key, value) pairs in insertion order
PyDict(xs) == [t |-> "dict", s |-> "", items |-> xs]

\* bool(v): the truth value Python's `if v:` / `not v` / `and` uses
Truthy(v) ==
    CASE v.t = "NoneType" -> FALSE
      [] v.t = "bool" -> v.s = "True"
      [] v.t = "int" -> v.s # "0"
      [] v.t = "str" -> v.s # ""
      [] OTHER -> Len(v.items) > 0

\* an exception in flight; NoExc: none
NoExc == [type |-> "", msg |-> ""]
Exc(ty, m) == [type |-> ty, msg |-> m]

\* sep.join(xs) for a sequence xs of strings
RECURSIVE Join(_, _)
Join(sep, xs) ==
    IF xs = <<>> THEN ""
    ELSE IF Len(xs) = 1 THEN xs[1]
    ELSE xs[1] \o sep \o Join(sep, Tail(xs))

\* the strings of a list/tuple of str
StrItems(v) == [i \in 1..Len(v.items) |-> v.items[i].s]

\* sep.join(v) for a Python value v: a list or tuple of str joins, None
\* (not iterable) or a non-str element raises TypeError
PyJoin(sep, v) ==
    IF v.t \notin {"list", "tuple"}
    THEN [exc |-> Exc("TypeError", "can only join an iterable"), s |-> ""]
    ELSE IF \E i \in 1..Len(v.items) : v.items[i].t # "str"
    THEN [exc |-> Exc("TypeError", "sequence item: expected str instance"), s |-> ""]
    ELSE [exc |-> NoExc, s |-> Join(sep, StrItems(v))]

-----------------------------------------------------------------------------
(* LemkPgUtils.get_conditions *)

\* `raise LemkPgError(message)` inside utils.py: the module imports only aiopg
\* and psycopg2, the name LemkPgError is unbound there, so evaluating it
\* raises NameError before any LemkPgError is constructed
UtilsRaiseLemkPgError(message) ==
    Exc("NameError", "name 'LemkPgError' is not defined")

\* a fragment whose joiner is not followed by a space
ConditionFragmentNoSpace(condition) ==
    IF Len(condition.items) < 4
    THEN [exc |-> Exc("IndexError", "tuple index out of range"), s |-> ""]
    ELSE [exc |-> NoExc,
          s |-> (IF condition.items[4].t # "NoneType"
                 THEN condition.items[4].s ELSE "")
                \o condition.items[1].s \o " " \o condition.items[2].s
                \o " '" \o condition.items[3].s \o "'"]

\* one element of the list comprehension: the f-string of a condition tuple.
\* condition[3] is read first (IndexError on a tuple shorter than 4), then
\* condition[3] + ' ' (TypeError unless it is a str)
ConditionFragment(condition) ==
    IF Len(condition.items) < 4
    THEN [exc |-> Exc("IndexError", "tuple index out of range"), s |-> ""]
    ELSE IF condition.items[4].t \notin {"NoneType", "str"}
    THEN [exc |-> Exc("TypeError", "unsupported operand type(s) for +"), s |-> ""]
    ELSE [exc |-> NoExc,
          s |-> (IF condition.items[4].t # "NoneType"
                 THEN condition.items[4].s \o " " ELSE "")
                \o condition.items[1].s \o " " \o condition.items[2].s
                \o " '" \o condition.items[3].s \o "'"]

\* get_conditions(conditions_list): [exc, val], val the list of fragments
get_conditions(conditions_list) ==
    IF conditions_list.t # "list"
    THEN [exc |-> UtilsRaiseLemkPgError("Variable condition_list should be list"),
          val |-> <<>>]
    ELSE IF \E i \in 1..Len(conditions_list.items) :
                conditions_list.items[i].t # "tuple"
    THEN [exc |-> UtilsRaiseLemkPgError(
                      "Variable condition_list should have tuples within"),
          val |-> <<>>]
    ELSE LET frags == [i \in 1..Len(conditions_list.items) |->
                          ConditionFragment(conditions_list.items[i])]
             bad == {i \in 1..Len(frags) : frags[i].exc # NoExc}
         IN  IF bad # {}
             THEN [exc |-> frags[CHOOSE i \in bad : \A j \in bad : i <= j].exc,
                   val |-> <<>>]
             ELSE [exc |-> NoExc, val |-> [i \in 1..Len(frags) |-> frags[i].s]]

-----------------------------------------------------------------------------
(* Formatting of Python values inside an f-string *)

\* repr() of a scalar element: a str in single quotes (strings of the model
\* hold no quote or backslash, where repr would switch quotes or escape)
PyReprScalar(v) == IF v.t = "str" THEN "'" \o v.s \o "'" ELSE v.s

\* str(v) / f"{v}": a scalar's text; a tuple as "(r1, r2)", with "(r1,)" for
\* a single element; a list as "[r1, r2]"
PyStrOf(v) ==
    LET reprs == [i \in 1..Len(v.items) |-> PyReprScalar(v.items[i])]
    IN  CASE v.t = "tuple" ->
                "(" \o Join(", ", reprs) \o (IF Len(reprs) = 1 THEN "," ELSE "") \o ")"
          [] v.t = "list" -> "[" \o Join(", ", reprs) \o "]"
          [] OTHER -> v.s

-----------------------------------------------------------------------------
(* Names imported by __init__.py from modules of the package that are not   *)
(* part of the sources at hand (lemkpg/constants.py, lemkpg/exceptions.py)  *)

\* constants.JOINS_LIST: the enumerated join kinds
JOINS_LIST == <<"INNER JOIN", "LEFT JOIN", "RIGHT JOIN", "FULL OUTER JOIN">>

\* exceptions.LemkPgError(message), as raised from __init__.py
LemkPgError(message) == Exc("LemkPgError", message)

-----------------------------------------------------------------------------
(* Results of a method body up to its executor call *)

\* the body reached `await LemkPgUtils.<executor>(self.dsn, query)`
Built(q, ex) == [exc |-> NoExc, query |-> q, executor |-> ex]
\* the body raised before building a statement
Failed(e) == [exc |-> e, query |-> "", executor |-> ""]

\* the arguments of a call; a method reads the fields it declares
NoArgs ==
    [table_name |-> "", fields |-> PyNone, primary_key |-> PyFalse,
     values |-> PyNone, columns |-> PyNone, order_by |-> PyNone,
     sort_type |-> PyNone, conditions_list |-> PyNone, distinct |-> PyFalse,
     column_name |-> "", action |-> "", column_type |-> PyNone, query |-> "",
     join_table_name |-> "", join_type |-> "", on_condition |-> PyNone,
     where_conditions_list |-> PyNone, all |-> PyTrue, column |-> ""]

-----------------------------------------------------------------------------
(* LemkPgApi: the bodies of `async def func()` of each method *)

\* a sort clause that is built as soon as order_by is given
SortWhenOrderByGiven(order_by, sort_type) ==
    IF Truthy(order_by)
    THEN IF order_by.t = "str" /\ sort_type.t = "str"
         THEN [exc |-> NoExc, s |-> " ORDER BY " \o order_by.s \o " " \o sort_type.s]
         ELSE [exc |-> Exc("TypeError", "can only concatenate str"), s |-> ""]
    ELSE [exc |-> NoExc, s |-> ""]

\* f"{' ORDER BY ' + order_by + ' ' + sort_type if order_by and sort_type else ''}"
LemkPgApi_sort(order_by, sort_type) ==
    IF Truthy(order_by) /\ Truthy(sort_type)
    THEN IF order_by.t = "str" /\ sort_type.t = "str"
         THEN [exc |-> NoExc, s |-> " ORDER BY " \o order_by.s \o " " \o sort_type.s]
         ELSE [exc |-> Exc("TypeError", "can only concatenate str"), s |-> ""]
    ELSE [exc |-> NoExc, s |-> ""]

\* a WHERE clause that is left out only when the conditions are None
WhereUnlessNone(c) ==
    IF c # PyNone
    THEN LET conditions == get_conditions(c)
         IN  IF conditions.exc # NoExc THEN [exc |-> conditions.exc, s |-> ""]
             ELSE [exc |-> NoExc, s |-> " WHERE " \o Join(" ", conditions.val)]
    ELSE [exc |-> NoExc, s |-> ""]

\* `if c: conditions = get_conditions(c); ... WHERE {" ".join(conditions)}`,
\* else no WHERE clause
LemkPgApi_where(c) ==
    IF Truthy(c)
    THEN LET conditions == get_conditions(c)
         IN  IF conditions.exc # NoExc THEN [exc |-> conditions.exc, s |-> ""]
             ELSE [exc |-> NoExc, s |-> " WHERE " \o Join(" ", conditions.val)]
    ELSE [exc |-> NoExc, s |-> ""]

\* f" ON {on_condition[0]} {on_condition[1]} {on_condition[2]}"
LemkPgApi_on(on_condition) ==
    " ON " \o PyStrOf(on_condition.items[1]) \o " " \o PyStrOf(on_condition.items[2])
    \o " " \o PyStrOf(on_condition.items[3])

\* a create_table that puts the key column last
CreateTableKeyLast(a) ==
    LET new_fields == [i \in 1..Len(a.fields.items) |->
                          PyStrOf(a.fields.items[i].items[1]) \o " "
                          \o PyStrOf(a.fields.items[i].items[2])]
    IN  IF ~Truthy(a.primary_key)
        THEN Built("CREATE TABLE IF NOT EXISTS " \o a.table_name \o " ("
                   \o Join(", ", new_fields) \o ")", "execute_query")
        ELSE Built("CREATE TABLE IF NOT EXISTS " \o a.table_name
                   \o " (" \o Join(", ", new_fields) \o ", id SERIAL PRIMARY KEY)",
                   "execute_query")

LemkPgApi_create_table(a) ==
    LET new_fields == [i \in 1..Len(a.fields.items) |->
                          PyStrOf(a.fields.items[i].items[1]) \o " "
                          \o PyStrOf(a.fields.items[i].items[2])]
    IN  IF ~Truthy(a.primary_key)
        THEN Built("CREATE TABLE IF NOT EXISTS " \o a.table_name \o " ("
                   \o Join(", ", new_fields) \o ")", "execute_query")
        ELSE Built("CREATE TABLE IF NOT EXISTS " \o a.table_name
                   \o " (id SERIAL PRIMARY KEY, " \o Join(", ", new_fields) \o ")",
                   "execute_query")

LemkPgApi_insert(a) ==
    LET cols == IF Truthy(a.columns) THEN PyJoin(", ", a.columns)
                ELSE [exc |-> NoExc, s |-> ""]
    IN  IF cols.exc # NoExc THEN Failed(cols.exc)
        ELSE Built("INSERT INTO " \o a.table_name \o " "
                   \o (IF Truthy(a.columns) THEN "(" \o cols.s \o ")" ELSE "")
                   \o " VALUES " \o PyStrOf(a.values), "execute_query")

LemkPgApi_get_all(a) ==
    LET sort == LemkPgApi_sort(a.order_by, a.sort_type)
    IN  IF sort.exc # NoExc THEN Failed(sort.exc)
        ELSE Built("SELECT * FROM " \o a.table_name \o sort.s, "get_query_result")

\* a select that puts ORDER BY before WHERE
GetSortBeforeWhere(a) ==
    LET dist == IF Truthy(a.distinct) THEN "DISTINCT " ELSE ""
        sort == LemkPgApi_sort(a.order_by, a.sort_type)
        where == LemkPgApi_where(a.conditions_list)
        flds == PyJoin(", ", a.fields)
    IN  IF sort.exc # NoExc THEN Failed(sort.exc)
        ELSE IF where.exc # NoExc THEN Failed(where.exc)
        ELSE IF flds.exc # NoExc THEN Failed(flds.exc)
        ELSE Built("SELECT " \o dist \o flds.s \o " FROM " \o a.table_name
                   \o sort.s \o where.s, "get_query_result")

LemkPgApi_get(a) ==
    LET dist == IF Truthy(a.distinct) THEN "DISTINCT " ELSE ""
        sort == LemkPgApi_sort(a.order_by, a.sort_type)
        where == LemkPgApi_where(a.conditions_list)
        flds == PyJoin(", ", a.fields)
    IN  IF sort.exc # NoExc THEN Failed(sort.exc)
        ELSE IF where.exc # NoExc THEN Failed(where.exc)
        ELSE IF flds.exc # NoExc THEN Failed(flds.exc)
        ELSE Built("SELECT " \o dist \o flds.s \o " FROM " \o a.table_name
                   \o where.s \o sort.s, "get_query_result")

\* an update that writes the new values without quotes
UpdateUnquoted(a) ==
    LET columns_for_update == [i \in 1..Len(a.fields.items) |->
                                  PyStrOf(a.fields.items[i].items[1]) \o " = "
                                  \o PyStrOf(a.fields.items[i].items[2])]
        where == LemkPgApi_where(a.conditions_list)
    IN  IF where.exc # NoExc THEN Failed(where.exc)
        ELSE Built("UPDATE " \o a.table_name \o " SET "
                   \o Join(", ", columns_for_update) \o where.s, "execute_query")

LemkPgApi_update(a) ==
    LET columns_for_update == [i \in 1..Len(a.fields.items) |->
                                  PyStrOf(a.fields.items[i].items[1]) \o " = '"
                                  \o PyStrOf(a.fields.items[i].items[2]) \o "'"]
        where == LemkPgApi_where(a.conditions_list)
    IN  IF where.exc # NoExc THEN Failed(where.exc)
        ELSE Built("UPDATE " \o a.table_name \o " SET "
                   \o Join(", ", columns_for_update) \o where.s, "execute_query")

LemkPgApi_alter_table(a) ==
    IF Truthy(a.column_type) /\ a.column_type.t # "str"
    THEN Failed(Exc("TypeError", "can only concatenate str"))
    ELSE Built("ALTER TABLE " \o a.table_name \o " " \o a.action \o " " \o a.column_name
               \o (IF Truthy(a.column_type) THEN " TYPE " \o a.column_type.s ELSE ""),
               "execute_query")

\* a raw_query that goes through the write executor
RawQueryThroughExecuteQuery(a) == Built(a.query, "execute_query")

LemkPgApi_raw_query(a) == Built(a.query, "get_query_result")

\* a join check that lets every kind through
JoinCheckSkipped(join_type) == FALSE

\* `join_type not in JOINS_LIST`
LemkPgApi_not_in_JOINS_LIST(join_type) ==
    \A i \in 1..Len(JOINS_LIST) : JOINS_LIST[i] # join_type

LemkPgApi_get_with_join(a) ==
    IF LemkPgApi_not_in_JOINS_LIST(a.join_type)
    THEN Failed(LemkPgError(
             "Incorrect JOIN type. Please use one of the valid JOIN types: "
             \o Join(", ", JOINS_LIST)))
    ELSE LET where == LemkPgApi_where(a.where_conditions_list)
             flds == PyJoin(", ", a.fields)
         IN  IF where.exc # NoExc THEN Failed(where.exc)
             ELSE IF flds.exc # NoExc THEN Failed(flds.exc)
             ELSE Built("SELECT " \o flds.s \o " FROM " \o a.table_name \o " "
                        \o a.join_type \o " " \o a.join_table_name
                        \o LemkPgApi_on(a.on_condition) \o where.s, "get_query_result")

LemkPgApi_inner_join(a) ==
    LET query_fields == IF ~Truthy(a.fields) /\ Truthy(a.all)
                        THEN [exc |-> NoExc, s |-> "*"] ELSE PyJoin(", ", a.fields)
        where == LemkPgApi_where(a.where_conditions_list)
    IN  IF query_fields.exc # NoExc THEN Failed(query_fields.exc)
        ELSE IF where.exc # NoExc THEN Failed(where.exc)
        ELSE Built("SELECT " \o query_fields.s \o " FROM " \o a.table_name
                   \o " INNER JOIN " \o a.join_table_name
                   \o LemkPgApi_on(a.on_condition) \o where.s, "get_query_result")

LemkPgApi_left_join(a) ==
    LET query_fields == IF ~Truthy(a.fields) /\ Truthy(a.all)
                        THEN [exc |-> NoExc, s |-> "*"] ELSE PyJoin(", ", a.fields)
        where == LemkPgApi_where(a.where_conditions_list)
    IN  IF query_fields.exc # NoExc THEN Failed(query_fields.exc)
        ELSE IF where.exc # NoExc THEN Failed(where.exc)
        ELSE Built("SELECT " \o query_fields.s \o " FROM " \o a.table_name
                   \o " LEFT JOIN " \o a.join_table_name
                   \o LemkPgApi_on(a.on_condition) \o where.s, "get_query_result")

LemkPgApi_right_join(a) ==
    LET query_fields == IF ~Truthy(a.fields) /\ Truthy(a.all)
                        THEN [exc |-> NoExc, s |-> "*"] ELSE PyJoin(", ", a.fields)
        where == LemkPgApi_where(a.where_conditions_list)
    IN  IF query_fields.exc # NoExc THEN Failed(query_fields.exc)
        ELSE IF where.exc # NoExc THEN Failed(where.exc)
        ELSE Built("SELECT " \o query_fields.s \o " FROM " \o a.table_name
                   \o " RIGHT JOIN " \o a.join_table_name
                   \o LemkPgApi_on(a.on_condition) \o where.s, "get_query_result")

\* a full join spelled FULL JOIN
FullJoinOtherKeyword(a) ==
    LET query_fields == IF ~Truthy(a.fields) /\ Truthy(a.all)
                        THEN [exc |-> NoExc, s |-> "*"] ELSE PyJoin(", ", a.fields)
        where == LemkPgApi_where(a.where_conditions_list)
    IN  IF query_fields.exc # NoExc THEN Failed(query_fields.exc)
        ELSE IF where.exc # NoExc THEN Failed(where.exc)
        ELSE Built("SELECT " \o query_fields.s \o " FROM " \o a.table_name
                   \o " FULL JOIN " \o a.join_table_name
                   \o LemkPgApi_on(a.on_condition) \o where.s, "get_query_result")

LemkPgApi_full_join(a) ==
    LET query_fields == IF ~Truthy(a.fields) /\ Truthy(a.all)
                        THEN [exc |-> NoExc, s |-> "*"] ELSE PyJoin(", ", a.fields)
        where == LemkPgApi_where(a.where_conditions_list)
    IN  IF query_fields.exc # NoExc THEN Failed(query_fields.exc)
        ELSE IF where.exc # NoExc THEN Failed(where.exc)
        ELSE Built("SELECT " \o query_fields.s \o " FROM " \o a.table_name
                   \o " FULL OUTER JOIN " \o a.join_table_name
                   \o LemkPgApi_on(a.on_condition) \o where.s, "get_query_result")

LemkPgApi_delete_table(a) ==
    Built("DROP TABLE IF EXISTS " \o a.table_name, "execute_query")

LemkPgApi_clear_table(a) ==
    Built("TRUNCATE TABLE " \o a.table_name, "execute_query")

LemkPgApi_delete_records(a) ==
    LET where == LemkPgApi_where(a.conditions_list)
    IN  IF where.exc # NoExc THEN Failed(where.exc)
        ELSE Built("DELETE FROM " \o a.table_name \o where.s, "execute_query")

LemkPgApi_count(a) ==
    LET where == LemkPgApi_where(a.conditions_list)
    IN  IF where.exc # NoExc THEN Failed(where.exc)
        ELSE Built("SELECT COUNT(" \o a.column \o ") FROM " \o a.table_name \o where.s,
                   "get_query_result")

LemkPgApi_avg(a) ==
    LET where == LemkPgApi_where(a.conditions_list)
    IN  IF where.exc # NoExc THEN Failed(where.exc)
        ELSE Built("SELECT AVG(" \o a.column \o ") FROM " \o a.table_name \o where.s,
                   "get_query_result")

LemkPgApi_sum(a) ==
    LET where == LemkPgApi_where(a.conditions_list)
    IN  IF where.exc # NoExc THEN Failed(where.exc)
        ELSE Built("SELECT SUM(" \o a.column \o ") FROM " \o a.table_name \o where.s,
                   "get_query_result")

\* a min that asks for the maximum
MinUsesMax(a) ==
    LET where == LemkPgApi_where(a.conditions_list)
    IN  IF where.exc # NoExc THEN Failed(where.exc)
        ELSE Built("SELECT MAX(" \o a.column \o ") FROM " \o a.table_name \o where.s,
                   "get_query_result")

LemkPgApi_min(a) ==
    LET where == LemkPgApi_where(a.conditions_list)
    IN  IF where.exc # NoExc THEN Failed(where.exc)
        ELSE Built("SELECT MIN(" \o a.column \o ") FROM " \o a.table_name \o where.s,
                   "get_query_result")

LemkPgApi_max(a) ==
    LET where == LemkPgApi_where(a.conditions_list)
    IN  IF where.exc # NoExc THEN Failed(where.exc)
        ELSE Built("SELECT MAX(" \o a.column \o ") FROM " \o a.table_name \o where.s,
                   "get_query_result")

\* the body of method `op`
LemkPgApi_body(op, a) ==
    CASE op = "create_table" -> LemkPgApi_create_table(a)
      [] op = "insert" -> LemkPgApi_insert(a)
      [] op = "get_all" -> LemkPgApi_get_all(a)
      [] op = "get" -> LemkPgApi_get(a)
      [] op = "update" -> LemkPgApi_update(a)
      [] op = "alter_table" -> LemkPgApi_alter_table(a)
      [] op = "raw_query" -> LemkPgApi_raw_query(a)
      [] op = "get_with_join" -> LemkPgApi_get_with_join(a)
      [] op = "inner_join" -> LemkPgApi_inner_join(a)
      [] op = "left_join" -> LemkPgApi_left_join(a)
      [] op = "right_join" -> LemkPgApi_right_join(a)
      [] op = "full_join" -> LemkPgApi_full_join(a)
      [] op = "delete_table" -> LemkPgApi_delete_table(a)
      [] op = "clear_table" -> LemkPgApi_clear_table(a)
      [] op = "delete_records" -> LemkPgApi_delete_records(a)
      [] op = "count" -> LemkPgApi_count(a)
      [] op = "avg" -> LemkPgApi_avg(a)
      [] op = "sum" -> LemkPgApi_sum(a)
      [] op = "min" -> LemkPgApi_min(a)
      [] op = "max" -> LemkPgApi_max(a)

\* what the method returns once its executor returned r: `return True` or
\* `return result`
LemkPgApi_return(op, r) ==
    IF op \in {"create_table", "insert", "delete_table", "clear_table",
               "delete_records"}
    THEN PyTrue ELSE r

-----------------------------------------------------------------------------
(* AsyncLemkPgApi: the bodies of each `async def` method *)

\* f"{' ORDER BY ' + order_by + ' ' + sort_type if order_by and sort_type else ''}"
AsyncLemkPgApi_sort(order_by, sort_type) ==
    IF Truthy(order_by) /\ Truthy(sort_type)
    THEN IF order_by.t = "str" /\ sort_type.t = "str"
         THEN [exc |-> NoExc, s |-> " ORDER BY " \o order_by.s \o " " \o sort_type.s]
         ELSE [exc |-> Exc("TypeError", "can only concatenate str"), s |-> ""]
    ELSE [exc |-> NoExc, s |-> ""]

\* `if c: conditions = get_conditions(c); ... WHERE {" ".join(conditions)}`,
\* else no WHERE clause
AsyncLemkPgApi_where(c) ==
    IF Truthy(c)
    THEN LET conditions == get_conditions(c)
         IN  IF conditions.exc # NoExc THEN [exc |-> conditions.exc, s |-> ""]
             ELSE [exc |-> NoExc, s |-> " WHERE " \o Join(" ", conditions.val)]
    ELSE [exc |-> NoExc, s |-> ""]

\* f" ON {on_condition[0]} {on_condition[1]} {on_condition[2]}"
AsyncLemkPgApi_on(on_condition) ==
    " ON " \o PyStrOf(on_condition.items[1]) \o " " \o PyStrOf(on_condition.items[2])
    \o " " \o PyStrOf(on_condition.items[3])

AsyncLemkPgApi_create_table(a) ==
    LET new_fields == [i \in 1..Len(a.fields.items) |->
                          PyStrOf(a.fields.items[i].items[1]) \o " "
                          \o PyStrOf(a.fields.items[i].items[2])]
    IN  IF ~Truthy(a.primary_key)
        THEN Built("CREATE TABLE IF NOT EXISTS " \o a.table_name \o " ("
                   \o Join(", ", new_fields) \o ")", "execute_query")
        ELSE Built("CREATE TABLE IF NOT EXISTS " \o a.table_name
                   \o " (id SERIAL PRIMARY KEY, " \o Join(", ", new_fields) \o ")",
                   "execute_query")

AsyncLemkPgApi_insert(a) ==
    LET cols == IF Truthy(a.columns) THEN PyJoin(", ", a.columns)
                ELSE [exc |-> NoExc, s |-> ""]
    IN  IF cols.exc # NoExc THEN Failed(cols.exc)
        ELSE Built("INSERT INTO " \o a.table_name \o " "
                   \o (IF Truthy(a.columns) THEN "(" \o cols.s \o ")" ELSE "")
                   \o " VALUES " \o PyStrOf(a.values), "execute_query")

AsyncLemkPgApi_get_all(a) ==
    LET sort == AsyncLemkPgApi_sort(a.order_by, a.sort_type)
    IN  IF sort.exc # NoExc THEN Failed(sort.exc)
        ELSE Built("SELECT * FROM " \o a.table_name \o sort.s, "get_query_result")

AsyncLemkPgApi_get(a) ==
    LET dist == IF Truthy(a.distinct) THEN "DISTINCT " ELSE ""
        sort == AsyncLemkPgApi_sort(a.order_by, a.sort_type)
        where == AsyncLemkPgApi_where(a.conditions_list)
        flds == PyJoin(", ", a.fields)
    IN  IF sort.exc # NoExc THEN Failed(sort.exc)
        ELSE IF where.exc # NoExc THEN Failed(where.exc)
        ELSE IF flds.exc # NoExc THEN Failed(flds.exc)
        ELSE Built("SELECT " \o dist \o flds.s \o " FROM " \o a.table_name
                   \o where.s \o sort.s, "get_query_result")

AsyncLemkPgApi_update(a) ==
    LET columns_for_update == [i \in 1..Len(a.fields.items) |->
                                  PyStrOf(a.fields.items[i].items[1]) \o " = '"
                                  \o PyStrOf(a.fields.items[i].items[2]) \o "'"]
        where == AsyncLemkPgApi_where(a.conditions_list)
    IN  IF where.exc # NoExc THEN Failed(where.exc)
        ELSE Built("UPDATE " \o a.table_name \o " SET "
                   \o Join(", ", columns_for_update) \o where.s, "execute_query")

AsyncLemkPgApi_alter_table(a) ==
    IF Truthy(a.column_type) /\ a.column_type.t # "str"
    THEN Failed(Exc("TypeError", "can only concatenate str"))
    ELSE Built("ALTER TABLE " \o a.table_name \o " " \o a.action \o " " \o a.column_name
               \o (IF Truthy(a.column_type) THEN " TYPE " \o a.column_type.s ELSE ""),
               "execute_query")

AsyncLemkPgApi_raw_query(a) == Built(a.query, "get_query_result")

\* `join_type not in JOINS_LIST`
AsyncLemkPgApi_not_in_JOINS_LIST(join_type) ==
    \A i \in 1..Len(JOINS_LIST) : JOINS_LIST[i] # join_type

AsyncLemkPgApi_get_with_join(a) ==
    IF AsyncLemkPgApi_not_in_JOINS_LIST(a.join_type)
    THEN Failed(LemkPgError(
             "Incorrect JOIN type. Please use one of the valid JOIN types: "
             \o Join(", ", JOINS_LIST)))
    ELSE LET where == AsyncLemkPgApi_where(a.where_conditions_list)
             flds == PyJoin(", ", a.fields)
         IN  IF where.exc # NoExc THEN Failed(where.exc)
             ELSE IF flds.exc # NoExc THEN Failed(flds.exc)
             ELSE Built("SELECT " \o flds.s \o " FROM " \o a.table_name \o " "
                        \o a.join_type \o " " \o a.join_table_name
                        \o AsyncLemkPgApi_on(a.on_condition) \o where.s, "get_query_result")

AsyncLemkPgApi_inner_join(a) ==
    LET query_fields == IF ~Truthy(a.fields) /\ Truthy(a.all)
                        THEN [exc |-> NoExc, s |-> "*"] ELSE PyJoin(", ", a.fields)
        where == AsyncLemkPgApi_where(a.where_conditions_list)
    IN  IF query_fields.exc # NoExc THEN Failed(query_fields.exc)
        ELSE IF where.exc # NoExc THEN Failed(where.exc)
        ELSE Built("SELECT " \o query_fields.s \o " FROM " \o a.table_name
                   \o " INNER JOIN " \o a.join_table_name
                   \o AsyncLemkPgApi_on(a.on_condition) \o where.s, "get_query_result")

AsyncLemkPgApi_left_join(a) ==
    LET query_fields == IF ~Truthy(a.fields) /\ Truthy(a.all)
                        THEN [exc |-> NoExc, s |-> "*"] ELSE PyJoin(", ", a.fields)
        where == AsyncLemkPgApi_where(a.where_conditions_list)
    IN  IF query_fields.exc # NoExc THEN Failed(query_fields.exc)
        ELSE IF where.exc # NoExc THEN Failed(where.exc)
        ELSE Built("SELECT " \o query_fields.s \o " FROM " \o a.table_name
                   \o " LEFT JOIN " \o a.join_table_name
                   \o AsyncLemkPgApi_on(a.on_condition) \o where.s, "get_query_result")

AsyncLemkPgApi_right_join(a) ==
    LET query_fields == IF ~Truthy(a.fields) /\ Truthy(a.all)
                        THEN [exc |-> NoExc, s |-> "*"] ELSE PyJoin(", ", a.fields)
        where == AsyncLemkPgApi_where(a.where_conditions_list)
    IN  IF query_fields.exc # NoExc THEN Failed(query_fields.exc)
        ELSE IF where.exc # NoExc THEN Failed(where.exc)
        ELSE Built("SELECT " \o query_fields.s \o " FROM " \o a.table_name
                   \o " RIGHT JOIN " \o a.join_table_name
                   \o AsyncLemkPgApi_on(a.on_condition) \o where.s, "get_query_result")

AsyncLemkPgApi_full_join(a) ==
    LET query_fields == IF ~Truthy(a.fields) /\ Truthy(a.all)
                        THEN [exc |-> NoExc, s |-> "*"] ELSE PyJoin(", ", a.fields)
        where == AsyncLemkPgApi_where(a.where_conditions_list)
    IN  IF query_fields.exc # NoExc THEN Failed(query_fields.exc)
        ELSE IF where.exc # NoExc THEN Failed(where.exc)
        ELSE Built("SELECT " \o query_fields.s \o " FROM " \o a.table_name
                   \o " FULL OUTER JOIN " \o a.join_table_name
                   \o AsyncLemkPgApi_on(a.on_condition) \o where.s, "get_query_result")

AsyncLemkPgApi_delete_table(a) ==
    Built("DROP TABLE IF EXISTS " \o a.table_name, "execute_query")

AsyncLemkPgApi_clear_table(a) ==
    Built("TRUNCATE TABLE " \o a.table_name, "execute_query")

AsyncLemkPgApi_delete_records(a) ==
    LET where == AsyncLemkPgApi_where(a.conditions_list)
    IN  IF where.exc # NoExc THEN Failed(where.exc)
        ELSE Built("DELETE FROM " \o a.table_name \o where.s, "execute_query")

AsyncLemkPgApi_count(a) ==
    LET where == AsyncLemkPgApi_where(a.conditions_list)
    IN  IF where.exc # NoExc THEN Failed(where.exc)
        ELSE Built("SELECT COUNT(" \o a.column \o ") FROM " \o a.table_name \o where.s,
                   "get_query_result")

AsyncLemkPgApi_avg(a) ==
    LET where == AsyncLemkPgApi_where(a.conditions_list)
    IN  IF where.exc # NoExc THEN Failed(where.exc)
        ELSE Built("SELECT AVG(" \o a.column \o ") FROM " \o a.table_name \o where.s,
                   "get_query_result")

AsyncLemkPgApi_sum(a) ==
    LET where == AsyncLemkPgApi_where(a.conditions_list)
    IN  IF where.exc # NoExc THEN Failed(where.exc)
        ELSE Built("SELECT SUM(" \o a.column \o ") FROM " \o a.table_name \o where.s,
                   "get_query_result")

AsyncLemkPgApi_min(a) ==
    LET where == AsyncLemkPgApi_where(a.conditions_list)
    IN  IF where.exc # NoExc THEN Failed(where.exc)
        ELSE Built("SELECT MIN(" \o a.column \o ") FROM " \o a.table_name \o where.s,
                   "get_query_result")

AsyncLemkPgApi_max(a) ==
    LET where == AsyncLemkPgApi_where(a.conditions_list)
    IN  IF where.exc # NoExc THEN Failed(where.exc)
        ELSE Built("SELECT MAX(" \o a.column \o ") FROM " \o a.table_name \o where.s,
                   "get_query_result")

\* the body of method `op`
AsyncLemkPgApi_body(op, a) ==
    CASE op = "create_table" -> AsyncLemkPgApi_create_table(a)
      [] op = "insert" -> AsyncLemkPgApi_insert(a)
      [] op = "get_all" -> AsyncLemkPgApi_get_all(a)
      [] op = "get" -> AsyncLemkPgApi_get(a)
      [] op = "update" -> AsyncLemkPgApi_update(a)
      [] op = "alter_table" -> AsyncLemkPgApi_alter_table(a)
      [] op = "raw_query" -> AsyncLemkPgApi_raw_query(a)
      [] op = "get_with_join" -> AsyncLemkPgApi_get_with_join(a)
      [] op = "inner_join" -> AsyncLemkPgApi_inner_join(a)
      [] op = "left_join" -> AsyncLemkPgApi_left_join(a)
      [] op = "right_join" -> AsyncLemkPgApi_right_join(a)
      [] op = "full_join" -> AsyncLemkPgApi_full_join(a)
      [] op = "delete_table" -> AsyncLemkPgApi_delete_table(a)
      [] op = "clear_table" -> AsyncLemkPgApi_clear_table(a)
      [] op = "delete_records" -> AsyncLemkPgApi_delete_records(a)
      [] op = "count" -> AsyncLemkPgApi_count(a)
      [] op = "avg" -> AsyncLemkPgApi_avg(a)
      [] op = "sum" -> AsyncLemkPgApi_sum(a)
      [] op = "min" -> AsyncLemkPgApi_min(a)
      [] op = "max" -> AsyncLemkPgApi_max(a)

\* what the method returns once its executor returned r: `return True` or
\* `return result`
AsyncLemkPgApi_return(op, r) ==
    IF op \in {"create_table", "insert", "delete_table", "clear_table",
               "delete_records"}
    THEN PyTrue ELSE r

-----------------------------------------------------------------------------
(* Construction and the blocking adapter *)

\* an __init__ that builds the dsn with the host in front
InitHostFirst(db_name, db_user, db_password, db_host) ==
    [db_name |-> db_name, db_user |-> db_user, db_password |-> db_password,
     db_host |-> db_host,
     dsn |-> "host=" \o db_host \o " dbname=" \o db_name \o " user=" \o db_user
             \o " password=" \o db_password]

\* __init__ of either class: the four fields and the dsn built from them
LemkPgApi_init(db_name, db_user, db_password, db_host) ==
    [db_name |-> db_name, db_user |-> db_user, db_password |-> db_password,
     db_host |-> db_host,
     dsn |-> "dbname=" \o db_name \o " user=" \o db_user \o " password="
             \o db_password \o " host=" \o db_host]

AsyncLemkPgApi_init(db_name, db_user, db_password, db_host) ==
    [db_name |-> db_name, db_user |-> db_user, db_password |-> db_password,
     db_host |-> db_host,
     dsn |-> "dbname=" \o db_name \o " user=" \o db_user \o " password="
             \o db_password \o " host=" \o db_host]

Methods ==
    {"create_table", "insert", "get_all", "get", "update", "alter_table",
     "raw_query", "get_with_join", "inner_join", "left_join", "right_join",
     "full_join", "delete_table", "clear_table", "delete_records", "count",
     "avg", "sum", "min", "max"}

\* the attributes a LemkPgApi object has: its fields, _run_async, its methods
LemkPgApi_attributes ==
    {"db_name", "db_user", "db_password", "db_host", "dsn", "_run_async"}
    \cup Methods

\* the attribute of self that the `return self.<...>(func())` line of a
\* blocking method calls
LemkPgApi_dispatch(op) ==
    IF op = "delete_table" THEN "run_async" ELSE "_run_async"

\* _run_async: which runner drives the coroutine, by sys.version_info[1]
LemkPgApi_run_async(minor) ==
    IF minor < 7 THEN "run_until_complete" ELSE "asyncio.run"

-----------------------------------------------------------------------------
(* LemkPgUtils.get_query_result and execute_query, after cursor.execute *)

Return(v) == [kind |-> "return", val |-> v, exc |-> NoExc]
Raise(e) == [kind |-> "raise", val |-> PyNone, exc |-> e]
Nothing == [kind |-> "none", val |-> PyNone, exc |-> NoExc]

\* an execute_query that falls off its end
execute_query_no_return == Return(PyNone)

\* execute_query: `return True` once cursor.execute returned
execute_query_result == Return(PyTrue)

\* a try block whose `return result` follows the loop: every row is fetched
get_query_result_all_rows(fetchError, rows) ==
    IF fetchError = "ProgrammingError"
    THEN [fetched |-> 0, pending |-> Return(PyNone)]
    ELSE IF fetchError # ""
    THEN [fetched |-> 0, pending |-> Raise(Exc(fetchError, "driver"))]
    ELSE [fetched |-> Len(rows), pending |-> Return(PyList(rows))]

\* a try block that returns the empty list when the cursor yields no row
get_query_result_empty_list(fetchError, rows) ==
    IF fetchError = "ProgrammingError"
    THEN [fetched |-> 0, pending |-> Return(PyNone)]
    ELSE IF fetchError # ""
    THEN [fetched |-> 0, pending |-> Raise(Exc(fetchError, "driver"))]
    ELSE IF rows # <<>>
    THEN [fetched |-> 1, pending |-> Return(PyList(<<rows[1]>>))]
    ELSE [fetched |-> 0, pending |-> Return(PyList(<<>>))]

\* a try block without the `except psycopg2.ProgrammingError`
get_query_result_no_except(fetchError, rows) ==
    IF fetchError # ""
    THEN [fetched |-> 0, pending |-> Raise(Exc(fetchError, "driver"))]
    ELSE IF rows # <<>>
    THEN [fetched |-> 1, pending |-> Return(PyList(<<rows[1]>>))]
    ELSE [fetched |-> 0, pending |-> Return(PyNone)]

\* get_query_result: result = [] and the try block.  fetchError is the
\* exception type the first fetch of the cursor raises ("" when it raises
\* none), rows the rows the cursor yields.  [fetched, pending]: how many rows
\* were fetched and how the function leaves.
get_query_result_try(fetchError, rows) ==
    IF fetchError = "ProgrammingError"
    THEN [fetched |-> 0, pending |-> Return(PyNone)]
    ELSE IF fetchError # ""
    THEN [fetched |-> 0, pending |-> Raise(Exc(fetchError, "driver"))]
    ELSE IF rows # <<>>
    THEN [fetched |-> 1, pending |-> Return(PyList(<<rows[1]>>))]
    ELSE [fetched |-> 0, pending |-> Return(PyNone)]

-----------------------------------------------------------------------------
(* The inputs the model draws from *)

\* sys.version_info[1] of the interpreter
PyMinors == {6, 7}

W1 == PyTuple(<<PyStr("a"), PyStr("="), PyStr("1"), PyNone>>)
W2 == PyTuple(<<PyStr("b"), PyStr(">"), PyStr("2"), PyStr("AND")>>)
W3 == PyTuple(<<PyStr("c"), PyStr("!="), PyStr("x y"), PyStr("OR")>>)
Short3 == PyTuple(<<PyStr("a"), PyStr("="), PyStr("1")>>)
Long5 == PyTuple(<<PyStr("a"), PyStr("="), PyStr("1"), PyNone, PyStr("e")>>)
IntJoiner == PyTuple(<<PyStr("a"), PyStr("="), PyStr("1"), PyInt("1")>>)
NotATuple == PyStr("a = 1")
ListElem == PyList(<<PyStr("a"), PyStr("="), PyStr("1"), PyNone>>)

CondElems == {W1, W2, W3, Short3, Long5, IntJoiner, NotATuple, ListElem}

\* the sequences over S of length at most n
SeqsUpTo(S, n) == UNION {[1..k -> S] : k \in 0..n}

\* what get_conditions is called with directly: lists of elements, and
\* values that are no list
CondInputs ==
    {PyList(xs) : xs \in SeqsUpTo(CondElems, MaxConds)}
    \cup {PyNone, PyStr("a = 1"), PyTuple(<<W1>>), PyTuple(<<>>)}

\* the conditions arguments of the API calls
ApiConds ==
    {PyNone, PyList(<<>>), PyTuple(<<>>), PyList(<<W1>>), PyList(<<W1, W2>>),
     PyList(<<Short3>>), PyList(<<NotATuple>>), PyTuple(<<W1>>)}
FewConds == {PyNone, PyTuple(<<>>), PyList(<<W1>>), PyList(<<W1, W3>>),
             PyList(<<NotATuple>>)}
JoinConds == {PyNone, PyList(<<>>), PyList(<<W1>>), PyList(<<NotATuple>>)}
\* the condition ("x", "=", "1", None)
X1 == PyTuple(<<PyStr("x"), PyStr("="), PyStr("1"), PyNone>>)

JoinTypes == {JOINS_LIST[i] : i \in 1..Len(JOINS_LIST)}
                \cup {"CROSS JOIN", "inner join"}

FieldList == PyList(<<PyStr("a"), PyStr("b")>>)
OnCond == PyTuple(<<PyStr("t.k"), PyStr("="), PyStr("u.k")>>)
Dict1 == PyDict(<<PyTuple(<<PyStr("id"), PyStr("integer")>>)>>)
Dict2 == PyDict(<<PyTuple(<<PyStr("id"), PyStr("integer")>>),
                  PyTuple(<<PyStr("date"), PyStr("text")>>)>>)

Requests ==
    {[op |-> "create_table",
      args |-> [NoArgs EXCEPT !.table_name = "t", !.fields = f, !.primary_key = pk]] :
        f \in {Dict1, Dict2}, pk \in {PyFalse, PyTrue}}
    \cup
    {[op |-> "insert",
      args |-> [NoArgs EXCEPT !.table_name = "t", !.values = v, !.columns = c]] :
        v \in {PyTuple(<<PyInt("1"), PyStr("a")>>), PyTuple(<<PyInt("1")>>)},
        c \in {PyNone, PyTuple(<<PyStr("id"), PyStr("name")>>)}}
    \cup
    {[op |-> "get_all",
      args |-> [NoArgs EXCEPT !.table_name = "t", !.order_by = ob, !.sort_type = st]] :
        ob \in {PyNone, PyStr("a")}, st \in {PyNone, PyStr("DESC")}}
    \cup
    {[op |-> "get",
      args |-> [NoArgs EXCEPT !.table_name = "t", !.fields = FieldList,
                              !.conditions_list = c, !.distinct = so[1],
                              !.order_by = so[2], !.sort_type = so[3]]] :
        c \in ApiConds,
        so \in {<<PyFalse, PyNone, PyNone>>, <<PyTrue, PyStr("a"), PyStr("ASC")>>}}
    \cup
    {[op |-> "get",
      args |-> [NoArgs EXCEPT !.table_name = "t", !.fields = FieldList,
                              !.conditions_list = PyList(<<X1>>), !.distinct = so[1],
                              !.order_by = so[2], !.sort_type = so[3]]] :
        so \in {<<PyTrue, PyNone, PyNone>>, <<PyFalse, PyStr("a"), PyNone>>,
                <<PyFalse, PyNone, PyStr("DESC")>>}}
    \cup
    {[op |-> "update",
      args |-> [NoArgs EXCEPT !.table_name = "t", !.fields = Dict2,
                              !.conditions_list = c]] : c \in ApiConds}
    \cup
    {[op |-> "alter_table",
      args |-> [NoArgs EXCEPT !.table_name = "t", !.column_name = "date",
                              !.action = ac[1], !.column_type = ac[2]]] :
        ac \in {<<"ALTER COLUMN", PyStr("varchar")>>, <<"DROP COLUMN", PyNone>>}}
    \cup
    {[op |-> "raw_query", args |-> [NoArgs EXCEPT !.query = q]] :
        q \in {"SELECT 1", "DELETE FROM t"}}
    \cup
    {[op |-> "get_with_join",
      args |-> [NoArgs EXCEPT !.table_name = "t", !.join_table_name = "u",
                              !.join_type = jt, !.fields = FieldList,
                              !.on_condition = OnCond,
                              !.where_conditions_list = c]] :
        jt \in JoinTypes, c \in JoinConds}
    \cup
    {[op |-> j,
      args |-> [NoArgs EXCEPT !.table_name = "t", !.join_table_name = "u",
                              !.on_condition = OnCond,
                              !.where_conditions_list = x[1],
                              !.fields = x[2], !.all = x[3]]] :
        j \in {"inner_join", "left_join", "right_join", "full_join"},
        x \in {<<PyNone, PyNone, PyTrue>>, <<PyNone, PyNone, PyFalse>>,
               <<PyNone, FieldList, PyTrue>>, <<PyList(<<W1>>), FieldList, PyFalse>>,
               <<PyTuple(<<>>), FieldList, PyTrue>>,
               <<PyList(<<NotATuple>>), PyNone, PyTrue>>,
               <<PyList(<<NotATuple>>), PyNone, PyFalse>>}}
    \cup
    {[op |-> o, args |-> [NoArgs EXCEPT !.table_name = "t"]] :
        o \in {"delete_table", "clear_table"}}
    \cup
    {[op |-> "delete_records",
      args |-> [NoArgs EXCEPT !.table_name = "t", !.conditions_list = c]] :
        c \in ApiConds}
    \cup
    {[op |-> o,
      args |-> [NoArgs EXCEPT !.table_name = "t", !.column = "id",
                              !.conditions_list = c]] :
        o \in {"count", "avg", "sum", "min", "max"}, c \in FewConds}

\* the rows of the modelled database, and its result sets: n distinct rows
\* in cyclic order, starting from any of them
Row(k) == PyTuple(<<PyInt(ToString(k))>>)
ResultSets ==
    {[i \in 1..n |-> Row(((first + i - 2) % n) + 1)] :
        n \in 1..MaxRows, first \in 1..MaxRows}
    \cup {<<>>}

\* how the database answers one call: the exception type that create_pool,
\* acquire, execute or the first fetch raises ("" for none, "hang" for an
\* operation that never completes), and the rows of the result set
DbOk(rows) == [pool |-> "", acquire |-> "", execute |-> "", fetch |-> "", rows |-> rows]
\* the answer outside any call
NoAnswer == DbOk(<<>>)
DbAnswers ==
    {DbOk(rows) : rows \in ResultSets}
    \cup {[DbOk(<<>>) EXCEPT !.pool = "OperationalError"],
          [DbOk(<<>>) EXCEPT !.acquire = "OperationalError"]}
    \cup {[DbOk(<<>>) EXCEPT !.execute = e] : e \in {"ProgrammingError", "IntegrityError"}}
    \cup {[DbOk(<<>>) EXCEPT !.fetch = e] : e \in {"ProgrammingError", "OperationalError"}}
    \cup {[DbOk(<<>>) EXCEPT ![step] = "hang"] :
              step \in {"pool", "acquire", "execute", "fetch"}}

ApiClasses == {"LemkPgApi", "AsyncLemkPgApi"}
OtherClass(cls) == IF cls = "LemkPgApi" THEN "AsyncLemkPgApi" ELSE "LemkPgApi"

-----------------------------------------------------------------------------
(* State *)

VARIABLES
    py_minor,   \* sys.version_info[1]
    self,       \* the API object of each class: its fields and dsn
    call,       \* the call in progress (or last finished): [cls, op, args]
    db,         \* how the database answers this call
    pc,         \* where the call stands
    loop,       \* the event loop of the blocking adapter
    query,      \* the statement the method body built
    executor,   \* the executor the method body awaits
    open,       \* the resources held by the executor, innermost last
    io,         \* what the call asked of the driver, in order
    fetched,    \* rows fetched from the cursor
    pending,    \* the value or exception on its way out of the executor
    outcome,    \* what the caller got
    twin,       \* the same call as made through the other class before
    earlier,    \* a finished call the caller remembers: its arguments and statement
    tasks,      \* the suspending calls in flight at once: the locals of each
    driver      \* the pools and connections the driver has handed out

vars == <<py_minor, self, call, db, pc, loop, query, executor, open, io,
          fetched, pending, outcome, twin, earlier, tasks, driver>>

NoCall == [cls |-> "", op |-> "", args |-> NoArgs]
NoTwin == [cls |-> "", io |-> <<>>, executor |-> "", outcome |-> Nothing]
NoEarlier ==
    [cls |-> "", op |-> "", args |-> <<>>, query |-> "", statements |-> <<>>,
     later |-> 0]

\* the locals of a suspending call that has not started: no arguments, no
\* answer of the database, no pool, connection or cursor (0)
NoTask ==
    [pc |-> "idle", op |-> "", args |-> <<>>, answer |-> <<>>, query |-> "",
     executor |-> "", pool |-> 0, conn |-> 0, cursor |-> 0, open |-> <<>>,
     pending |-> Nothing, outcome |-> Nothing]
\* nothing handed out yet.  A pool: who created it and who closed it (0:
\* open); a connection: its pool, who acquired and released it, who opened
\* and closed its cursor, and the statements executed on it
NoDriver == [pools |-> <<>>, conns |-> <<>>]

Init ==
    /\ py_minor \in PyMinors
    /\ self = [cls \in ApiClasses |->
                 IF cls = "LemkPgApi"
                 THEN LemkPgApi_init("demo_db", "postgres", "pass", "127.0.0.1")
                 ELSE AsyncLemkPgApi_init("demo_db", "postgres", "pass", "127.0.0.1")]
    /\ call = NoCall
    /\ db = NoAnswer
    /\ pc = "idle"
    /\ loop = "none"
    /\ query = ""
    /\ executor = ""
    /\ open = <<>>
    /\ io = <<>>
    /\ fetched = 0
    /\ pending = Nothing
    /\ outcome = Nothing
    /\ twin = NoTwin
    /\ earlier = NoEarlier
    /\ tasks = [t \in 1..MaxCalls |-> NoTask]
    /\ driver = NoDriver

\* the locals of a call that starts
Fresh ==
    /\ query' = ""
    /\ executor' = ""
    /\ open' = <<>>
    /\ io' = <<>>
    /\ fetched' = 0
    /\ pending' = Nothing
    /\ outcome' = Nothing

Event(ev, arg) == [ev |-> ev, arg |-> arg]

IsExecute(e) == e.ev = "execute"
IsExit(e) == e.ev = "exit"
\* the statements a driver log holds, in order
Statements(log) ==
    LET ex == SelectSeq(log, IsExecute) IN [i \in 1..Len(ex) |-> ex[i].arg]
\* the resources a driver log released, in order
Released(log) ==
    LET ex == SelectSeq(log, IsExit) IN [i \in 1..Len(ex) |-> ex[i].arg]

\* the body of the method of class cls
Body(cls, op, a) ==
    IF cls = "LemkPgApi" THEN LemkPgApi_body(op, a) ELSE AsyncLemkPgApi_body(op, a)

MethodReturn(cls, op, r) ==
    IF cls = "LemkPgApi" THEN LemkPgApi_return(op, r) ELSE AsyncLemkPgApi_return(op, r)

-----------------------------------------------------------------------------
(* Actions *)

\* a caller calls method r.op of the object of class cls (a caller that
\* remembers an earlier call notes that one or several calls followed it)
Call(cls, r, answer) ==
    /\ pc = "idle"
    /\ call' = [cls |-> cls, op |-> r.op, args |-> r.args]
    /\ db' = answer
    /\ pc' = "called"
    /\ twin' = NoTwin
    /\ Fresh
    /\ UNCHANGED <<py_minor, self, loop>>
    /\ earlier' = IF earlier = NoEarlier \/ earlier.later = 2 THEN earlier
                  ELSE [earlier EXCEPT !.later = earlier.later + 1]
    /\ UNCHANGED <<tasks, driver>>

\* the caller repeats the blocking call it just made through the suspending
\* class, the database answering as before
CallTwin ==
    /\ pc = "done"
    /\ call.cls = "LemkPgApi"
    /\ twin = NoTwin
    /\ call' = [call EXCEPT !.cls = OtherClass(call.cls)]
    /\ twin' = [cls |-> call.cls, io |-> io, executor |-> executor,
                outcome |-> outcome]
    /\ pc' = "called"
    /\ Fresh
    /\ UNCHANGED <<py_minor, self, db, loop>>
    /\ UNCHANGED <<earlier, tasks, driver>>

\* LemkPgUtils.get_conditions called directly
GetConditions(conditions_list) ==
    /\ pc = "idle"
    /\ call' = [cls |-> "LemkPgUtils", op |-> "get_conditions",
                args |-> [NoArgs EXCEPT !.conditions_list = conditions_list]]
    /\ LET r == get_conditions(conditions_list)
       IN  outcome' = IF r.exc # NoExc THEN Raise(r.exc)
                      ELSE Return(PyList([i \in 1..Len(r.val) |-> PyStr(r.val[i])]))
    /\ pc' = "done"
    /\ twin' = NoTwin
    /\ db' = NoAnswer
    /\ query' = ""
    /\ executor' = ""
    /\ open' = <<>>
    /\ io' = <<>>
    /\ fetched' = 0
    /\ pending' = Nothing
    /\ UNCHANGED <<py_minor, self, loop>>
    /\ UNCHANGED <<earlier, tasks, driver>>

\* an adapter that schedules the coroutine on the loop and returns at once
RunAsyncFireAndForget ==
    /\ pc = "called"
    /\ call.cls = "LemkPgApi"
    /\ loop' = "running"
    /\ outcome' = Return(PyNone)
    /\ pc' = "done"
    /\ UNCHANGED <<py_minor, self, call, db, query, executor, open, io, fetched,
                   pending, twin>>
    /\ UNCHANGED <<earlier, tasks, driver>>

\* a blocking method: `return self.<dispatch>(func())`
RunAsync ==
    /\ pc = "called"
    /\ call.cls = "LemkPgApi"
    /\ IF LemkPgApi_dispatch(call.op) \in LemkPgApi_attributes
       THEN /\ loop' = "running"
            /\ pc' = "body"
            /\ UNCHANGED outcome
       ELSE /\ outcome' = Raise(Exc("AttributeError",
                                    "'LemkPgApi' object has no attribute '"
                                    \o LemkPgApi_dispatch(call.op) \o "'"))
            /\ pc' = "done"
            /\ UNCHANGED loop
    /\ UNCHANGED <<py_minor, self, call, db, query, executor, open, io, fetched,
                   pending, twin>>
    /\ UNCHANGED <<earlier, tasks, driver>>

\* the caller awaits the coroutine of a suspending method
Await ==
    /\ pc = "called"
    /\ call.cls = "AsyncLemkPgApi"
    /\ pc' = "body"
    /\ UNCHANGED <<py_minor, self, call, db, loop, query, executor, open, io,
                   fetched, pending, outcome, twin>>
    /\ UNCHANGED <<earlier, tasks, driver>>

\* a method that validates only inside the pool block of its executor
RunBodyInsidePool ==
    /\ pc = "body"
    /\ LET b == Body(call.cls, call.op, call.args)
       IN  IF b.exc # NoExc
           THEN /\ pending' = Raise(b.exc)
                /\ io' = Append(io, Event("create_pool", self[call.cls].dsn))
                /\ open' = Append(open, "pool")
                /\ pc' = "unwind"
                /\ UNCHANGED <<query, executor>>
           ELSE /\ query' = b.query
                /\ executor' = b.executor
                /\ pc' = "create_pool"
                /\ UNCHANGED <<pending, io, open>>
    /\ UNCHANGED <<py_minor, self, call, db, loop, fetched, outcome, twin>>
    /\ UNCHANGED <<earlier, tasks, driver>>

\* a method that stamps its statement with the state of the event loop
RunBodyStamped ==
    /\ pc = "body"
    /\ LET b == Body(call.cls, call.op, call.args)
       IN  IF b.exc # NoExc
           THEN /\ pending' = Raise(b.exc)
                /\ pc' = "unwind"
                /\ UNCHANGED <<query, executor>>
           ELSE /\ query' = b.query \o " /* " \o loop \o " */"
                /\ executor' = b.executor
                /\ pc' = "create_pool"
                /\ UNCHANGED pending
    /\ UNCHANGED <<py_minor, self, call, db, loop, open, io, fetched, outcome, twin>>
    /\ UNCHANGED <<earlier, tasks, driver>>

\* the method body up to its executor call
RunBody ==
    /\ pc = "body"
    /\ LET b == Body(call.cls, call.op, call.args)
       IN  IF b.exc # NoExc
           THEN /\ pending' = Raise(b.exc)
                /\ pc' = "unwind"
                /\ UNCHANGED <<query, executor>>
           ELSE /\ query' = b.query
                /\ executor' = b.executor
                /\ pc' = "create_pool"
                /\ UNCHANGED pending
    /\ UNCHANGED <<py_minor, self, call, db, loop, open, io, fetched, outcome, twin>>
    /\ UNCHANGED <<earlier, tasks, driver>>

\* an await that gives up on an operation that does not complete
AwaitTimesOut(answer) == FALSE

\* `await` of a driver operation: the coroutine resumes when the operation
\* completes or fails, and never when it does neither
AwaitNeverResumes(answer) == answer = "hang"

\* async with aiopg.create_pool(dsn) as pool
CreatePool ==
    /\ pc = "create_pool"
    /\ io' = Append(io, Event("create_pool", self[call.cls].dsn))
    /\ IF AwaitNeverResumes(db.pool)
       THEN /\ pc' = "blocked"
            /\ UNCHANGED <<open, pending>>
       ELSE IF db.pool = ""
       THEN /\ open' = Append(open, "pool")
            /\ pc' = "acquire"
            /\ UNCHANGED pending
       ELSE /\ pending' = Raise(Exc(db.pool, "driver"))
            /\ pc' = "unwind"
            /\ UNCHANGED open
    /\ UNCHANGED <<py_minor, self, call, db, loop, query, executor, fetched,
                   outcome, twin>>
    /\ UNCHANGED <<earlier, tasks, driver>>

\* async with pool.acquire() as conn
Acquire ==
    /\ pc = "acquire"
    /\ io' = Append(io, Event("acquire", ""))
    /\ IF AwaitNeverResumes(db.acquire)
       THEN /\ pc' = "blocked"
            /\ UNCHANGED <<open, pending>>
       ELSE IF db.acquire = ""
       THEN /\ open' = Append(open, "conn")
            /\ pc' = "cursor"
            /\ UNCHANGED pending
       ELSE /\ pending' = Raise(Exc(db.acquire, "driver"))
            /\ pc' = "unwind"
            /\ UNCHANGED open
    /\ UNCHANGED <<py_minor, self, call, db, loop, query, executor, fetched,
                   outcome, twin>>
    /\ UNCHANGED <<earlier, tasks, driver>>

\* async with conn.cursor() as cursor
Cursor ==
    /\ pc = "cursor"
    /\ io' = Append(io, Event("cursor", ""))
    /\ open' = Append(open, "cursor")
    /\ pc' = "execute"
    /\ UNCHANGED <<py_minor, self, call, db, loop, query, executor, fetched,
                   pending, outcome, twin>>
    /\ UNCHANGED <<earlier, tasks, driver>>

\* an executor that sends the statement again when the driver rejects it
ExecuteWithRetry ==
    /\ pc = "execute"
    /\ IF AwaitNeverResumes(db.execute)
       THEN /\ io' = Append(io, Event("execute", query))
            /\ pc' = "blocked"
            /\ UNCHANGED pending
       ELSE IF db.execute # ""
       THEN /\ io' = io \o <<Event("execute", query), Event("execute", query)>>
            /\ pending' = Raise(Exc(db.execute, "driver"))
            /\ pc' = "unwind"
       ELSE /\ io' = Append(io, Event("execute", query))
            /\ IF executor = "execute_query"
               THEN /\ pending' = execute_query_result
                    /\ pc' = "unwind"
               ELSE /\ pc' = "iterate"
                    /\ UNCHANGED pending
    /\ UNCHANGED <<py_minor, self, call, db, loop, query, executor, open, fetched,
                   outcome, twin>>
    /\ UNCHANGED <<earlier, tasks, driver>>

\* an executor that turns a rejected statement into the return value None
ExecuteErrorAsNone ==
    /\ pc = "execute"
    /\ io' = Append(io, Event("execute", query))
    /\ IF AwaitNeverResumes(db.execute)
       THEN /\ pc' = "blocked"
            /\ UNCHANGED pending
       ELSE IF db.execute # ""
       THEN /\ pending' = Return(PyNone)
            /\ pc' = "unwind"
       ELSE IF executor = "execute_query"
       THEN /\ pending' = execute_query_result
            /\ pc' = "unwind"
       ELSE /\ pc' = "iterate"
            /\ UNCHANGED pending
    /\ UNCHANGED <<py_minor, self, call, db, loop, query, executor, open, fetched,
                   outcome, twin>>
    /\ UNCHANGED <<earlier, tasks, driver>>

\* await cursor.execute(query); execute_query then returns True
Execute ==
    /\ pc = "execute"
    /\ io' = Append(io, Event("execute", query))
    /\ IF AwaitNeverResumes(db.execute)
       THEN /\ pc' = "blocked"
            /\ UNCHANGED pending
       ELSE IF db.execute # ""
       THEN /\ pending' = Raise(Exc(db.execute, "driver"))
            /\ pc' = "unwind"
       ELSE IF executor = "execute_query"
       THEN /\ pending' = execute_query_result
            /\ pc' = "unwind"
       ELSE /\ pc' = "iterate"
            /\ UNCHANGED pending
    /\ UNCHANGED <<py_minor, self, call, db, loop, query, executor, open, fetched,
                   outcome, twin>>
    /\ UNCHANGED <<earlier, tasks, driver>>

\* get_query_result: the try block around `async for row in cursor`
Iterate ==
    /\ pc = "iterate"
    /\ IF AwaitNeverResumes(db.fetch)
       THEN /\ pc' = "blocked"
            /\ UNCHANGED <<fetched, pending>>
       ELSE /\ LET r == get_query_result_try(db.fetch, db.rows)
               IN  /\ fetched' = r.fetched
                   /\ pending' = r.pending
            /\ pc' = "unwind"
    /\ UNCHANGED <<py_minor, self, call, db, loop, query, executor, open, io,
                   outcome, twin>>
    /\ UNCHANGED <<earlier, tasks, driver>>

\* blocks left outermost first
ExitOutermostFirst ==
    /\ pc = "unwind"
    /\ open # <<>>
    /\ io' = Append(io, Event("exit", open[1]))
    /\ open' = SubSeq(open, 2, Len(open))
    /\ UNCHANGED <<py_minor, self, call, db, pc, loop, query, executor, fetched,
                   pending, outcome, twin>>
    /\ UNCHANGED <<earlier, tasks, driver>>

\* leaving the innermost `async with` block still entered
Exit ==
    /\ pc = "unwind"
    /\ open # <<>>
    /\ io' = Append(io, Event("exit", open[Len(open)]))
    /\ open' = SubSeq(open, 1, Len(open) - 1)
    /\ UNCHANGED <<py_minor, self, call, db, pc, loop, query, executor, fetched,
                   pending, outcome, twin>>
    /\ UNCHANGED <<earlier, tasks, driver>>

\* a method that forgets the password of its object once it has connected
FinishClearingPassword ==
    /\ pc = "unwind"
    /\ open = <<>>
    /\ outcome' = IF pending.kind = "return"
                  THEN Return(MethodReturn(call.cls, call.op, pending.val))
                  ELSE pending
    /\ loop' = IF call.cls = "LemkPgApi"
               THEN (IF LemkPgApi_run_async(py_minor) = "asyncio.run"
                     THEN "closed" ELSE "stopped")
               ELSE loop
    /\ self' = [self EXCEPT ![call.cls].db_password = ""]
    /\ pc' = "done"
    /\ UNCHANGED <<py_minor, call, db, query, executor, open, io, fetched,
                   pending, twin>>
    /\ UNCHANGED <<earlier, tasks, driver>>

\* the method returns or raises to its caller; the blocking adapter's runner
\* ends (asyncio.run closes its loop, run_until_complete leaves it stopped)
Finish ==
    /\ pc = "unwind"
    /\ open = <<>>
    /\ outcome' = IF pending.kind = "return"
                  THEN Return(MethodReturn(call.cls, call.op, pending.val))
                  ELSE pending
    /\ loop' = IF call.cls = "LemkPgApi"
               THEN (IF LemkPgApi_run_async(py_minor) = "asyncio.run"
                     THEN "closed" ELSE "stopped")
               ELSE loop
    /\ pc' = "done"
    /\ UNCHANGED <<py_minor, self, call, db, query, executor, open, io, fetched,
                   pending, twin>>
    /\ UNCHANGED <<earlier, tasks, driver>>

\* the caller has taken the outcome; the frame of the call is gone
Discard ==
    /\ pc = "done"
    /\ pc' = "idle"
    /\ call' = NoCall
    /\ db' = NoAnswer
    /\ twin' = NoTwin
    /\ Fresh
    /\ UNCHANGED <<py_minor, self, loop>>
    /\ UNCHANGED <<earlier, tasks, driver>>

Next ==
    \/ \E cls \in ApiClasses, r \in Requests, answer \in DbAnswers :
           Call(cls, r, answer)
    \/ CallTwin
    \/ \E c \in CondInputs : GetConditions(c)
    \/ RunAsync
    \/ Await
    \/ RunBody
    \/ CreatePool
    \/ Acquire
    \/ Cursor
    \/ Execute
    \/ Iterate
    \/ Exit
    \/ Finish
    \/ Discard

Spec == Init /\ [][Next]_vars

\* the steps of a call that has started: the event loop (asyncio.run,
\* run_until_complete, or the loop of the awaiting caller) resumes a
\* coroutine that can continue
Step ==
    \/ RunAsync
    \/ Await
    \/ RunBody
    \/ CreatePool
    \/ Acquire
    \/ Cursor
    \/ Execute
    \/ Iterate
    \/ Exit
    \/ Finish

FairSpec == Spec /\ WF_vars(Step)

\* the calls a caller repeats: those without conditions or with the two
\* well-formed conditions, on a database that accepts them
RepeatRequests ==
    {r \in Requests :
        /\ r.args.conditions_list \in {PyNone, PyList(<<W1, W2>>), PyList(<<W1, W3>>)}
        /\ r.args.where_conditions_list \in {PyNone, PyList(<<W1>>)}
        /\ r.args.join_type \in {"", "LEFT JOIN", "CROSS JOIN"}
        /\ r.args.primary_key = PyFalse
        /\ r.args.columns = PyNone
        /\ r.args.sort_type = r.args.order_by
        /\ r.args.all = PyTrue}

\* the answer of a database that accepts the call and has no rows for it
RepeatAnswers ==
    {a \in DbAnswers : a = DbOk(<<>>)}

\* the caller keeps what a finished call was and what it sent
Remember ==
    /\ pc = "done"
    /\ call.cls \in ApiClasses
    /\ earlier = NoEarlier
    /\ earlier' = [cls |-> call.cls, op |-> call.op, args |-> call.args,
                   query |-> query, statements |-> Statements(io), later |-> 0]
    /\ UNCHANGED <<py_minor, self, call, db, pc, loop, query, executor, open, io,
                   fetched, pending, outcome, twin, tasks, driver>>

\* calls one after the other, one of them remembered
RepeatNext ==
    \/ \E cls \in ApiClasses, r \in RepeatRequests, answer \in RepeatAnswers :
           Call(cls, r, answer)
    \/ Remember
    \/ RunAsync
    \/ Await
    \/ RunBody
    \/ CreatePool
    \/ Acquire
    \/ Cursor
    \/ Execute
    \/ Iterate
    \/ Exit
    \/ Finish
    \/ Discard

RepeatSpec == Init /\ [][RepeatNext]_vars

-----------------------------------------------------------------------------
(* Several AsyncLemkPgApi calls in flight on one object.  Each step is the
   code of one coroutine between two of its suspension points. *)

seqvars == <<py_minor, self, call, db, pc, loop, query, executor, open, io,
             fetched, pending, outcome, twin, earlier>>

\* the calls made at once and how the database answers each
ConcCalls ==
    {[op |-> "insert",
      args |-> [NoArgs EXCEPT !.table_name = "t", !.values = PyTuple(<<PyInt("1")>>)],
      answer |-> a] :
        a \in {x \in DbAnswers : x.rows = <<>> /\ x.pool = "" /\ x.acquire = ""
                                  /\ x.execute \in {"", "IntegrityError"}
                                  /\ x.fetch = ""}}
    \cup
    {[op |-> "get",
      args |-> [NoArgs EXCEPT !.table_name = "t", !.fields = FieldList,
                              !.conditions_list = PyList(<<W1>>)],
      answer |-> a] :
        a \in {x \in DbAnswers : x.rows = <<Row(1)>> \/ x.acquire = "OperationalError"}}
    \cup
    {[op |-> "get",
      args |-> [NoArgs EXCEPT !.table_name = "t", !.fields = FieldList,
                              !.conditions_list = PyList(<<NotATuple>>)],
      answer |-> a] :
        a \in {x \in DbAnswers : x.rows = <<Row(1)>>}}

\* task t is called: the coroutine object exists and is awaited
TaskCall(t, c) ==
    /\ tasks[t].pc = "idle"
    /\ tasks' = [tasks EXCEPT ![t] = [NoTask EXCEPT !.pc = "body", !.op = c.op,
                                                    !.args = c.args,
                                                    !.answer = c.answer]]
    /\ UNCHANGED driver
    /\ UNCHANGED seqvars

\* the method body up to its executor call
TaskRunBody(t) ==
    /\ tasks[t].pc = "body"
    /\ LET b == AsyncLemkPgApi_body(tasks[t].op, tasks[t].args)
       IN  tasks' = [tasks EXCEPT ![t] =
                IF b.exc # NoExc
                THEN [@ EXCEPT !.pending = Raise(b.exc), !.pc = "unwind"]
                ELSE [@ EXCEPT !.query = b.query, !.executor = b.executor,
                               !.pc = "create_pool"]]
    /\ UNCHANGED driver
    /\ UNCHANGED seqvars

\* async with aiopg.create_pool(dsn) as pool: `pool` is a local of the call
TaskCreatePool(t) ==
    /\ tasks[t].pc = "create_pool"
    /\ IF tasks[t].answer.pool = ""
       THEN /\ driver' = [driver EXCEPT !.pools =
                    Append(@, [dsn |-> self["AsyncLemkPgApi"].dsn,
                               created_by |-> t, closed_by |-> 0])]
            /\ tasks' = [tasks EXCEPT ![t].pool = Len(driver.pools) + 1,
                                      ![t].open = Append(@, "pool"),
                                      ![t].pc = "acquire"]
       ELSE /\ tasks' = [tasks EXCEPT
                    ![t].pending = Raise(Exc(tasks[t].answer.pool, "driver")),
                    ![t].pc = "unwind"]
            /\ UNCHANGED driver
    /\ UNCHANGED seqvars

\* an executor that acquires from a pool kept where every call finds it: the
\* pool created last
TaskAcquireShared(t) ==
    /\ tasks[t].pc = "acquire"
    /\ driver' = [driver EXCEPT !.conns =
            Append(@, [pool |-> Len(driver.pools), acquired_by |-> t,
                       released_by |-> 0, cursor_by |-> 0,
                       cursor_closed_by |-> 0, executed |-> <<>>])]
    /\ tasks' = [tasks EXCEPT ![t].conn = Len(driver.conns) + 1,
                              ![t].open = Append(@, "conn"),
                              ![t].pc = "cursor"]
    /\ UNCHANGED seqvars

\* async with pool.acquire() as conn: from the call's own `pool`
TaskAcquire(t) ==
    /\ tasks[t].pc = "acquire"
    /\ IF tasks[t].answer.acquire = ""
       THEN /\ driver' = [driver EXCEPT !.conns =
                    Append(@, [pool |-> tasks[t].pool, acquired_by |-> t,
                               released_by |-> 0, cursor_by |-> 0,
                               cursor_closed_by |-> 0, executed |-> <<>>])]
            /\ tasks' = [tasks EXCEPT ![t].conn = Len(driver.conns) + 1,
                                      ![t].open = Append(@, "conn"),
                                      ![t].pc = "cursor"]
       ELSE /\ tasks' = [tasks EXCEPT
                    ![t].pending = Raise(Exc(tasks[t].answer.acquire, "driver")),
                    ![t].pc = "unwind"]
            /\ UNCHANGED driver
    /\ UNCHANGED seqvars

\* async with conn.cursor() as cursor: on the call's own `conn`
TaskCursor(t) ==
    /\ tasks[t].pc = "cursor"
    /\ driver' = [driver EXCEPT !.conns[tasks[t].conn].cursor_by = t]
    /\ tasks' = [tasks EXCEPT ![t].cursor = tasks[t].conn,
                              ![t].open = Append(@, "cursor"),
                              ![t].pc = "execute"]
    /\ UNCHANGED seqvars

\* await cursor.execute(query): on the call's own `cursor`; the driver notes
\* who executed what and whether connection and pool were still open
TaskExecute(t) ==
    /\ tasks[t].pc = "execute"
    /\ LET c == tasks[t].cursor
       IN  driver' = [driver EXCEPT !.conns[c].executed =
               Append(@, [by |-> t, query |-> tasks[t].query,
                          live |-> /\ driver.conns[c].released_by = 0
                                   /\ driver.conns[c].cursor_closed_by = 0
                                   /\ driver.pools[driver.conns[c].pool].closed_by = 0])]
    /\ tasks' = [tasks EXCEPT ![t] =
            IF tasks[t].answer.execute # ""
            THEN [@ EXCEPT !.pending = Raise(Exc(tasks[t].answer.execute, "driver")),
                           !.pc = "unwind"]
            ELSE IF tasks[t].executor = "execute_query"
            THEN [@ EXCEPT !.pending = execute_query_result, !.pc = "unwind"]
            ELSE [@ EXCEPT !.pc = "iterate"]]
    /\ UNCHANGED seqvars

\* get_query_result: the try block around `async for row in cursor`
TaskIterate(t) ==
    /\ tasks[t].pc = "iterate"
    /\ tasks' = [tasks EXCEPT
            ![t].pending = get_query_result_try(tasks[t].answer.fetch,
                                                tasks[t].answer.rows).pending,
            ![t].pc = "unwind"]
    /\ UNCHANGED driver
    /\ UNCHANGED seqvars

\* leaving the innermost `async with` block of the call
TaskExit(t) ==
    /\ tasks[t].pc = "unwind"
    /\ tasks[t].open # <<>>
    /\ LET inner == tasks[t].open[Len(tasks[t].open)]
       IN  driver' =
               IF inner = "cursor"
               THEN [driver EXCEPT !.conns[tasks[t].cursor].cursor_closed_by = t]
               ELSE IF inner = "conn"
               THEN [driver EXCEPT !.conns[tasks[t].conn].released_by = t]
               ELSE [driver EXCEPT !.pools[tasks[t].pool].closed_by = t]
    /\ tasks' = [tasks EXCEPT ![t].open = SubSeq(@, 1, Len(@) - 1)]
    /\ UNCHANGED seqvars

\* the awaiting caller gets the value or the exception
TaskFinish(t) ==
    /\ tasks[t].pc = "unwind"
    /\ tasks[t].open = <<>>
    /\ tasks' = [tasks EXCEPT
            ![t].outcome = IF tasks[t].pending.kind = "return"
                           THEN Return(AsyncLemkPgApi_return(tasks[t].op,
                                                             tasks[t].pending.val))
                           ELSE tasks[t].pending,
            ![t].pc = "done"]
    /\ UNCHANGED driver
    /\ UNCHANGED seqvars

-----------------------------------------------------------------------------
(* Construction of the two API classes *)

\* the arguments of a constructor call: the four named values, the further
\* positional arguments (*args) and the further keyword arguments (**kwargs)
ConstructorCalls ==
    [db_name : {"demo_db", "shop"}, db_user : {"postgres", "u"},
     db_password : {"pass", ""}, db_host : {"127.0.0.1", "db"},
     args : {<<>>, <<"5432">>, <<"5432", "x">>},
     kwargs : {{}, {<<"port", "5432">>}}]

\* cls(db_name, db_user, db_password, db_host, *args, **kwargs): __init__
\* stores the four values and the dsn; args and kwargs are not read
Construct(cls, c) ==
    /\ pc = "idle"
    /\ self' = [self EXCEPT ![cls] =
                   IF cls = "LemkPgApi"
                   THEN LemkPgApi_init(c.db_name, c.db_user, c.db_password, c.db_host)
                   ELSE AsyncLemkPgApi_init(c.db_name, c.db_user, c.db_password,
                                            c.db_host)]
    /\ call' = [cls |-> cls, op |-> "__init__", args |-> c]
    /\ UNCHANGED <<py_minor, db, pc, loop, query, executor, open, io, fetched,
                   pending, outcome, twin>>
    /\ UNCHANGED <<earlier, tasks, driver>>

ConstructNext == \E cls \in ApiClasses, c \in ConstructorCalls : Construct(cls, c)

ConstructSpec == Init /\ [][ConstructNext]_vars

ConcNext ==
    \E t \in 1..MaxCalls :
        \/ \E c \in ConcCalls : TaskCall(t, c)
        \/ TaskRunBody(t)
        \/ TaskCreatePool(t)
        \/ TaskAcquire(t)
        \/ TaskCursor(t)
        \/ TaskExecute(t)
        \/ TaskIterate(t)
        \/ TaskExit(t)
        \/ TaskFinish(t)

\* a suspending call never reads sys.version_info: one interpreter is enough
ConcInit == Init /\ py_minor = 7

ConcSpec == ConcInit /\ [][ConcNext]_vars

-----------------------------------------------------------------------------
(* Vocabulary of the properties *)

Done == pc = "done"
IsApiCall == call.cls \in ApiClasses
IsGetConditions == call.cls = "LemkPgUtils" /\ call.op = "get_conditions"

\* the driver accepted the connection and the statement
DriverAccepts == db.pool = "" /\ db.acquire = "" /\ db.execute = ""

\* a 4-element tuple
FourTuple(e) == e.t = "tuple" /\ Len(e.items) = 4

\* a condition (column, operator, literal, joiner) of strings, the joiner
\* None or a string
Condition(e) ==
    /\ FourTuple(e)
    /\ \A k \in 1..3 : e.items[k].t = "str"
    /\ e.items[4].t \in {"NoneType", "str"}

\* a well-formed condition list: conditions, the first with joiner None, the
\* later ones with AND / OR
WellFormed(c) ==
    /\ c.t = "list"
    /\ Len(c.items) >= 1
    /\ \A i \in 1..Len(c.items) :
          /\ Condition(c.items[i])
          /\ IF i = 1 THEN c.items[i].items[4] = PyNone
             ELSE c.items[i].items[4] \in {PyStr("AND"), PyStr("OR")}

\* <col> <op> '<val>'
Comparison(e) ==
    e.items[1].s \o " " \o e.items[2].s \o " '" \o e.items[3].s \o "'"

\* <col> <op> '<val>' [(AND|OR) <col> <op> '<val>']*, read off a well-formed
\* sequence of conditions from its last element backwards
RECURSIVE WherePattern(_)
WherePattern(cs) ==
    IF Len(cs) = 1 THEN Comparison(cs[1])
    ELSE WherePattern(SubSeq(cs, 1, Len(cs) - 1)) \o " "
         \o cs[Len(cs)].items[4].s \o " " \o Comparison(cs[Len(cs)])

ValidJoinKinds == {"INNER JOIN", "LEFT JOIN", "RIGHT JOIN", "FULL OUTER JOIN"}

-----------------------------------------------------------------------------
(* Properties *)

\* C1: get_conditions fails with LemkPgError for every input that is not a
\* list and for every list holding an element that is not a 4-element tuple;
\* it neither returns fragments nor fails with another error kind.
C1_RejectsMalformedWithLemkPgError ==
    (Done /\ IsGetConditions
       /\ (call.args.conditions_list.t # "list"
           \/ \E i \in 1..Len(call.args.conditions_list.items) :
                 ~FourTuple(call.args.conditions_list.items[i])))
    => (outcome.kind = "raise" /\ outcome.exc.type = "LemkPgError")

\* C2: for a well-formed condition list get_conditions returns one fragment
\* per condition, in input order, fragment i being "<column> <operator>
\* '<literal>'" prefixed by "<joiner> " when i > 1, and the fragments joined
\* with single spaces spell <col> <op> '<val>' [(AND|OR) <col> <op> '<val>']*.
C2_FragmentsOfWellFormedList ==
    (Done /\ IsGetConditions /\ WellFormed(call.args.conditions_list))
    => LET c == call.args.conditions_list.items
       IN  /\ outcome.kind = "return"
           /\ outcome.val.t = "list"
           /\ Len(outcome.val.items) = Len(c)
           /\ \A i \in 1..Len(c) :
                 outcome.val.items[i] =
                    PyStr((IF i > 1 THEN c[i].items[4].s \o " " ELSE "")
                          \o Comparison(c[i]))
           /\ Join(" ", StrItems(outcome.val)) = WherePattern(c)

C2_Witness ==
    /\ Done /\ IsGetConditions /\ WellFormed(call.args.conditions_list)
    /\ Len(call.args.conditions_list.items) >= 2
    /\ outcome.kind = "return"

\* C3: a list of conditions whose first condition has a joiner, or whose
\* second or later condition has joiner None, is not turned into fragments.
C3_MisplacedJoinerRejected ==
    (Done /\ IsGetConditions
       /\ call.args.conditions_list.t = "list"
       /\ Len(call.args.conditions_list.items) >= 1
       /\ (\A i \in 1..Len(call.args.conditions_list.items) :
              Condition(call.args.conditions_list.items[i]))
       /\ ~WellFormed(call.args.conditions_list))
    => outcome.kind = "raise"

\* C4: get_with_join of either class fails with LemkPgError, its message
\* listing the valid kinds, for a join_type outside the four kinds, and for
\* each of the four builds "SELECT <fields> FROM <table> <join_type>
\* <join_table> ON <l> <op> <r>[ WHERE <conditions>]" and executes it.
C4_GetWithJoin ==
    (Done /\ IsApiCall /\ call.op = "get_with_join")
    => LET a == call.args
           w == a.where_conditions_list
           expected ==
               "SELECT " \o Join(", ", StrItems(a.fields)) \o " FROM "
               \o a.table_name \o " " \o a.join_type \o " " \o a.join_table_name
               \o " ON " \o a.on_condition.items[1].s \o " "
               \o a.on_condition.items[2].s \o " " \o a.on_condition.items[3].s
               \o (IF Truthy(w) THEN " WHERE " \o WherePattern(w.items) ELSE "")
       IN  IF a.join_type \notin ValidJoinKinds
           THEN /\ outcome = Raise(Exc("LemkPgError",
                     "Incorrect JOIN type. Please use one of the valid JOIN types: "
                     \o "INNER JOIN, LEFT JOIN, RIGHT JOIN, FULL OUTER JOIN"))
                /\ io = <<>>
           ELSE (~Truthy(w) \/ WellFormed(w))
                => /\ query = expected
                   /\ executor = "get_query_result"
                   /\ (db.pool = "" /\ db.acquire = "")
                        => Statements(io) = <<expected>>

C4_Witness ==
    /\ Done /\ call.cls = "AsyncLemkPgApi" /\ call.op = "get_with_join"
    /\ twin.cls = "LemkPgApi"
    /\ call.args.join_type = "FULL OUTER JOIN"
    /\ Truthy(call.args.where_conditions_list)
    /\ Len(Statements(io)) = 1 /\ Len(Statements(twin.io)) = 1

\* C5: a call that ends with an error of the layer's own validation (raised
\* by the method, not by the driver) has done no I/O: no pool was created, no
\* connection acquired, no statement sent.
C5_ValidationBeforeIO ==
    (Done /\ IsApiCall /\ outcome.kind = "raise" /\ outcome.exc.msg # "driver")
    => (io = <<>> /\ open = <<>>)

C5_Witness ==
    /\ Done /\ call.cls = "LemkPgApi" /\ call.op = "get"
    /\ Truthy(call.args.conditions_list)
    /\ outcome.kind = "raise" /\ outcome.exc.msg # "driver"
    /\ db.pool = ""

\* C6: the blocking method and the suspending method of the same name, given
\* the same arguments and the same answers of the database, send the same
\* statements through the same executor and end with the same return value
\* or the same error.
C6_BlockingEqualsSuspending ==
    (Done /\ twin.cls # "")
    => /\ Statements(twin.io) = Statements(io)
       /\ twin.executor = executor
       /\ twin.outcome = outcome

\* C7: the blocking delete_table(name) executes exactly "DROP TABLE IF EXISTS
\* <name>" and returns True when the driver accepts the statement.
C7_BlockingDeleteTable ==
    (Done /\ call.cls = "LemkPgApi" /\ call.op = "delete_table" /\ DriverAccepts)
    => /\ Statements(io) = <<"DROP TABLE IF EXISTS " \o call.args.table_name>>
       /\ outcome = Return(PyTrue)

\* C8: when the cursor of a read yields at least one row, get_query_result
\* returns a collection of exactly one element, the first row; no later row
\* is fetched.
C8_FirstRowOnly ==
    (Done /\ IsApiCall /\ executor = "get_query_result" /\ DriverAccepts
       /\ db.fetch = "" /\ db.rows # <<>>)
    => /\ pending = Return(PyList(<<db.rows[1]>>))
       /\ fetched = 1

C8_Witness ==
    /\ Done /\ IsApiCall /\ executor = "get_query_result" /\ DriverAccepts
    /\ db.fetch = "" /\ Len(db.rows) >= 2
    /\ pending.kind = "return"

\* C9: a psycopg2.ProgrammingError raised while get_query_result reads the
\* rows of an executed statement is not propagated: the call ends normally
\* with None, and cursor, connection and pool are released.
C9_ProgrammingErrorSwallowed ==
    (Done /\ IsApiCall /\ executor = "get_query_result" /\ DriverAccepts
       /\ db.fetch = "ProgrammingError")
    => /\ pending = Return(PyNone)
       /\ outcome = Return(PyNone)
       /\ open = <<>>
       /\ Released(io) = <<"cursor", "conn", "pool">>

C9_Witness ==
    /\ Done /\ IsApiCall /\ executor = "get_query_result" /\ DriverAccepts
    /\ db.fetch = "ProgrammingError"
    /\ Len(Statements(io)) = 1

WriteOps ==
    {"create_table", "insert", "update", "alter_table", "delete_table",
     "clear_table", "delete_records"}

\* C10: a write/DDL operation returns exactly True once its statement has
\* completed without a driver error, never row data, and never returns True
\* for a statement the driver rejected.
C10_WritesReturnTrue ==
    (Done /\ IsApiCall /\ call.op \in WriteOps)
    => LET completed == Len(Statements(io)) = 1 /\ db.execute = ""
       IN  /\ completed => outcome = Return(PyTrue)
           /\ outcome.kind = "return" => (outcome.val = PyTrue /\ completed)

C10_Witness ==
    /\ Done /\ IsApiCall /\ call.op = "update"
    /\ db.rows # <<>> /\ Len(Statements(io)) = 1
    /\ outcome = Return(PyTrue)

\* the events of kind ev in a driver log
EventsOf(log, ev) == {i \in 1..Len(log) : log[i].ev = ev}

\* the call got a connection from its pool
ConnectionAcquired == EventsOf(io, "acquire") # {} /\ db.acquire = ""

Opened ==
    IF db.pool # "" THEN <<>>
    ELSE IF db.acquire # "" THEN <<"pool">>
    ELSE <<"pool", "conn", "cursor">>

Reverse(s) == [i \in 1..Len(s) |-> s[Len(s) + 1 - i]]

\* C12: a finished call that reached its executor has created exactly one
\* pool and at most one connection and one cursor, and has left the blocks
\* it entered innermost first (cursor, connection, pool) as its last driver
\* operations; between calls and after a call nothing is open.
C12_ResourcesReleased ==
    /\ pc \in {"idle", "done"} => open = <<>>
    /\ (Done /\ IsApiCall /\ executor # "")
       => /\ Cardinality(EventsOf(io, "create_pool")) = 1
          /\ Cardinality(EventsOf(io, "acquire")) <= 1
          /\ Cardinality(EventsOf(io, "cursor")) <= 1
          /\ Released(io) = Reverse(Opened)
          /\ \A i \in 1..Len(io) :
                 i > Len(io) - Len(Opened) <=> io[i].ev = "exit"

C12_Witness ==
    /\ Done /\ IsApiCall /\ executor = "get_query_result"
    /\ DriverAccepts /\ db.fetch = "OperationalError"
    /\ outcome.kind = "raise"
    /\ Released(io) = <<"cursor", "conn", "pool">>

\* C13: an error the driver reports when the pool is created, the connection
\* acquired or the statement executed, and any error of the row iteration
\* other than the ProgrammingError of C9, ends the call with that same error,
\* for both executors and both classes.
C13_DriverErrorPassthrough ==
    (Done /\ IsApiCall /\ executor # "")
    => /\ db.pool # "" => outcome = Raise(Exc(db.pool, "driver"))
       /\ (db.pool = "" /\ db.acquire # "")
            => outcome = Raise(Exc(db.acquire, "driver"))
       /\ (db.pool = "" /\ db.acquire = "" /\ db.execute # "")
            => outcome = Raise(Exc(db.execute, "driver"))
       /\ (DriverAccepts /\ executor = "get_query_result"
             /\ db.fetch \notin {"", "ProgrammingError"})
            => outcome = Raise(Exc(db.fetch, "driver"))

C13_Witness ==
    /\ Done /\ call.cls = "LemkPgApi" /\ executor = "get_query_result"
    /\ db.execute = "ProgrammingError"
    /\ outcome = Raise(Exc("ProgrammingError", "driver"))

\* C15: the fields and the dsn of both API objects are, in every state, the
\* ones construction gave them, and every pool is created with that dsn.
C15_ObjectUnchanged ==
    /\ \A cls \in ApiClasses :
           self[cls] = [db_name |-> "demo_db", db_user |-> "postgres",
                        db_password |-> "pass", db_host |-> "127.0.0.1",
                        dsn |-> "dbname=demo_db user=postgres password=pass host=127.0.0.1"]
    /\ \A i \in EventsOf(io, "create_pool") :
           io[i].arg = "dbname=demo_db user=postgres password=pass host=127.0.0.1"

C15_Witness ==
    /\ Done /\ call.cls = "AsyncLemkPgApi" /\ loop # "none"
    /\ outcome.kind = "raise"
    /\ EventsOf(io, "create_pool") # {}

\* C16: a blocking method is back at its caller only when the coroutine it
\* drove has finished: the runner is no longer running, every block of the
\* executor is left and the outcome is the coroutine's; a value is returned
\* only after the statement's round trip and the release of cursor,
\* connection and pool; no runner is running between two calls.
C16_BlockingRunsToCompletion ==
    /\ (Done /\ call.cls = "LemkPgApi")
       => /\ loop # "running"
          /\ open = <<>>
          /\ outcome.kind \in {"return", "raise"}
          /\ outcome.kind = "return"
               => /\ Len(Statements(io)) = 1
                  /\ Released(io) = <<"cursor", "conn", "pool">>
                  /\ io[Len(io)] = Event("exit", "pool")
          /\ (outcome.kind = "raise" /\ executor # "")
               => Released(io) = Reverse(Opened)
    /\ loop = "running"
       => (call.cls = "LemkPgApi" /\ pc \notin {"idle", "called", "done"})

C16_Witness ==
    /\ Done /\ call.cls = "LemkPgApi" /\ call.op = "create_table"
    /\ outcome = Return(PyTrue)
    /\ loop = "closed"

\* a conditions argument of the documented type: None, or a list of
\* (column, operator, literal, joiner) tuples
WellTypedConditions(c) ==
    \/ c = PyNone
    \/ c.t = "list" /\ \A i \in 1..Len(c.items) : Condition(c.items[i])

\* C19: a call with well-typed arguments, whose join kind (get_with_join) is
\* one of the four, builds a statement and reaches its executor: it does not
\* end with an error raised before the driver was asked anything.
C19_TotalOverWellTyped ==
    (Done /\ IsApiCall
       /\ WellTypedConditions(call.args.conditions_list)
       /\ WellTypedConditions(call.args.where_conditions_list)
       /\ (call.op = "get_with_join" => call.args.join_type \in ValidJoinKinds))
    => /\ executor # ""
       /\ query # ""
       /\ EventsOf(io, "create_pool") # {}

ConvenienceJoins ==
    [inner_join |-> "INNER JOIN", left_join |-> "LEFT JOIN",
     right_join |-> "RIGHT JOIN", full_join |-> "FULL OUTER JOIN"]

\* C20: a convenience join does what get_with_join of the same class does
\* with the kind fixed and with fields ["*"] when fields is unset and all is
\* true, the given fields otherwise: the same statement through the same
\* executor, and no statement where get_with_join builds none; a statement
\* it builds selects "*" in the first case and the comma-separated fields in
\* the second.
C20_ConvenienceJoins ==
    (Done /\ IsApiCall /\ call.op \in DOMAIN ConvenienceJoins
       /\ LemkPgApi_dispatch(call.op) \in LemkPgApi_attributes)
    => LET a == call.args
           star == ~Truthy(a.fields) /\ Truthy(a.all)
           general == Body(call.cls, "get_with_join",
                           [a EXCEPT !.join_type = ConvenienceJoins[call.op],
                                     !.fields = IF star THEN PyList(<<PyStr("*")>>)
                                                ELSE a.fields])
           w == a.where_conditions_list
       IN  /\ query = general.query
           /\ executor = general.executor
           /\ general.exc # NoExc => outcome.kind = "raise"
           /\ (general.exc = NoExc /\ db.pool = "" /\ db.acquire = "")
                => Statements(io) = <<general.query>>
           /\ (executor # "" /\ (~Truthy(w) \/ WellFormed(w)))
                => query = "SELECT "
                           \o (IF star THEN "*" ELSE Join(", ", StrItems(a.fields)))
                           \o " FROM " \o a.table_name \o " "
                           \o ConvenienceJoins[call.op] \o " " \o a.join_table_name
                           \o " ON " \o a.on_condition.items[1].s \o " "
                           \o a.on_condition.items[2].s \o " "
                           \o a.on_condition.items[3].s
                           \o (IF Truthy(w) THEN " WHERE " \o WherePattern(w.items)
                               ELSE "")

C20_Witness ==
    /\ Done /\ call.cls = "LemkPgApi" /\ call.op = "full_join"
    /\ ~Truthy(call.args.fields) /\ Truthy(call.args.all)
    /\ Len(Statements(io)) = 1

Blocked == pc = "blocked"

\* the driver operation the call awaited last
LastAwaited ==
    IF pc = "blocked" /\ io # <<>> /\ io[Len(io)].ev = "execute" /\ db.execute = ""
    THEN db.fetch
    ELSE IF io = <<>> THEN ""
    ELSE CASE io[Len(io)].ev = "create_pool" -> db.pool
           [] io[Len(io)].ev = "acquire" -> db.acquire
           [] io[Len(io)].ev = "execute" -> db.execute
           [] OTHER -> ""

\* C17: a call that has started ends (returns or raises) or blocks on a
\* driver operation; it blocks only on an operation that never completes and
\* then stays blocked for ever; and a call that ended awaited no such
\* operation.
C17_TerminatesIffDriverDoes ==
    /\ (pc = "called") ~> (Done \/ Blocked)
    /\ [](Blocked => LastAwaited = "hang")
    /\ [][Blocked => Blocked']_vars
    /\ []((Done /\ IsApiCall /\ executor # "")
            => /\ db.pool # "hang"
               /\ db.pool = "" => db.acquire # "hang"
               /\ (db.pool = "" /\ db.acquire = "") => db.execute # "hang"
               /\ (DriverAccepts /\ executor = "get_query_result")
                    => db.fetch # "hang")

C17_Witness ==
    /\ Blocked /\ call.cls = "LemkPgApi" /\ loop = "running"
    /\ db.execute = "hang"
    /\ Len(Statements(io)) = 1
    /\ open = <<"pool", "conn", "cursor">>

\* the call in progress has the class, the method and the arguments of the
\* remembered one
SameAsEarlier ==
    /\ IsApiCall
    /\ earlier.cls = call.cls /\ earlier.op = call.op /\ earlier.args = call.args

C14_CallsUseOwnPool ==
    /\ \A i \in 1..Len(driver.conns) :
          LET c == driver.conns[i]
          IN  /\ driver.pools[c.pool].created_by = c.acquired_by
              /\ c.released_by \in {0, c.acquired_by}
              /\ c.cursor_by \in {0, c.acquired_by}
              /\ c.cursor_closed_by \in {0, c.acquired_by}
              /\ \A k \in 1..Len(c.executed) :
                    /\ c.executed[k].by = c.acquired_by
                    /\ c.executed[k].live
                    /\ c.executed[k].query = tasks[c.acquired_by].query
              /\ Len(c.executed) <= 1
              /\ c.released_by # 0 => driver.pools[c.pool].closed_by \in {0, c.acquired_by}
              /\ driver.pools[c.pool].closed_by # 0 => c.released_by # 0
    /\ \A p \in 1..Len(driver.pools) :
          /\ driver.pools[p].closed_by \in {0, driver.pools[p].created_by}
          /\ driver.pools[p].dsn = self["AsyncLemkPgApi"].dsn
    /\ \A t \in 1..MaxCalls :
          tasks[t].pc = "done"
          => /\ tasks[t].pool # 0 => driver.pools[tasks[t].pool].closed_by = t
             /\ tasks[t].conn # 0 => driver.conns[tasks[t].conn].released_by = t

\* two calls between create_pool and release at once, the pool created
\* second acquired from first, both statements executed
C14_Witness ==
    /\ Len(driver.pools) >= 2 /\ Len(driver.conns) >= 2
    /\ driver.pools[1].created_by # driver.pools[2].created_by
    /\ driver.conns[1].pool = 2
    /\ driver.conns[1].executed # <<>> /\ driver.conns[2].executed # <<>>
    /\ driver.pools[1].closed_by = 0 /\ driver.pools[2].closed_by = 0

\* the call ran its method body (the blocking delete_table does not, C7)
BodyRan == Done /\ IsApiCall /\ LemkPgApi_dispatch(call.op) \in LemkPgApi_attributes

\* the pool was created and the connection acquired
Connected == db.pool = "" /\ db.acquire = ""

\* " WHERE <conditions>" of a falsy or well-formed conditions argument
WhereClause(c) ==
    IF Truthy(c) THEN " WHERE " \o WherePattern(c.items) ELSE ""

\* C21: get of either class builds "SELECT [DISTINCT ]<fields, comma
\* separated, in input order> FROM <name>[ WHERE <conditions>][ ORDER BY
\* <order_by> <sort_type>]" and sends it through get_query_result; get("t",
\* ["a","b"], [("x","=","1",None)], distinct=True) gives "SELECT DISTINCT a,
\* b FROM t WHERE x = '1'".
C21_Get ==
    (BodyRan /\ call.op = "get"
       /\ (~Truthy(call.args.conditions_list) \/ WellFormed(call.args.conditions_list)))
    => LET a == call.args
           expected ==
               "SELECT " \o (IF a.distinct = PyTrue THEN "DISTINCT " ELSE "")
               \o Join(", ", StrItems(a.fields)) \o " FROM " \o a.table_name
               \o WhereClause(a.conditions_list)
               \o (IF a.order_by # PyNone /\ a.sort_type # PyNone
                   THEN " ORDER BY " \o a.order_by.s \o " " \o a.sort_type.s
                   ELSE "")
       IN  /\ query = expected
           /\ executor = "get_query_result"
           /\ Connected => Statements(io) = <<expected>>
           /\ (a.conditions_list = PyList(<<X1>>) /\ a.distinct = PyTrue
                 /\ a.order_by = PyNone /\ a.sort_type = PyNone)
                => query = "SELECT DISTINCT a, b FROM t WHERE x = '1'"

C21_Witness ==
    /\ BodyRan /\ call.op = "get"
    /\ call.args.conditions_list = PyList(<<X1>>) /\ call.args.distinct = PyTrue
    /\ call.args.order_by = PyNone
    /\ Statements(io) = <<"SELECT DISTINCT a, b FROM t WHERE x = '1'">>

\* "<col1> <type1>, <col2> <type2>, ..." of a dict, in insertion order, read
\* off from its last pair backwards
RECURSIVE ColumnDefs(_)
ColumnDefs(pairs) ==
    IF Len(pairs) = 0 THEN ""
    ELSE LET last == pairs[Len(pairs)]
         IN  (IF Len(pairs) = 1 THEN ""
              ELSE ColumnDefs(SubSeq(pairs, 1, Len(pairs) - 1)) \o ", ")
             \o last.items[1].s \o " " \o last.items[2].s

\* C22: create_table of either class builds "CREATE TABLE IF NOT EXISTS
\* <name> (<col1> <type1>, ...)" with the columns in insertion order and "id
\* SERIAL PRIMARY KEY, " in front of them exactly when primary_key is true;
\* create_table("t", {"id": "integer"}, False) gives "CREATE TABLE IF NOT
\* EXISTS t (id integer)".
C22_CreateTable ==
    (BodyRan /\ call.op = "create_table")
    => LET a == call.args
           expected ==
               "CREATE TABLE IF NOT EXISTS " \o a.table_name \o " ("
               \o (IF a.primary_key = PyTrue THEN "id SERIAL PRIMARY KEY, " ELSE "")
               \o ColumnDefs(a.fields.items) \o ")"
       IN  /\ query = expected
           /\ executor = "execute_query"
           /\ Connected => Statements(io) = <<expected>>
           /\ (a.fields = Dict1 /\ a.primary_key = PyFalse)
                => query = "CREATE TABLE IF NOT EXISTS t (id integer)"

C22_Witness ==
    /\ BodyRan /\ call.op = "create_table"
    /\ call.args.primary_key = PyTrue /\ Len(call.args.fields.items) = 2
    /\ Statements(io) =
           <<"CREATE TABLE IF NOT EXISTS t (id SERIAL PRIMARY KEY, id integer, date text)">>

\* "(<v1>, <v2>, ...)": the literals of a sequence in input order, strings
\* in single quotes
ValueList(v) ==
    "(" \o Join(", ", [i \in 1..Len(v.items) |->
                          IF v.items[i].t = "str" THEN "'" \o v.items[i].s \o "'"
                          ELSE v.items[i].s]) \o ")"

\* C23: insert of either class builds "INSERT INTO <name> [(<col>, ...)]
\* VALUES (<v1>, <v2>, ...)" with values and columns in input order; with
\* columns absent both classes put the same text between the table name and
\* VALUES, and insert("t", (1, "a"), None) gives "INSERT INTO t  VALUES (1,
\* 'a')".
C23_Insert ==
    (BodyRan /\ call.op = "insert")
    => LET a == call.args
           expected ==
               "INSERT INTO " \o a.table_name \o " "
               \o (IF a.columns = PyNone THEN ""
                   ELSE "(" \o Join(", ", StrItems(a.columns)) \o ")")
               \o " VALUES " \o ValueList(a.values)
       IN  /\ query = expected
           /\ a.columns = PyNone
                => LemkPgApi_insert(a) = AsyncLemkPgApi_insert(a)
           /\ (a.columns = PyNone
                 /\ a.values = PyTuple(<<PyInt("1"), PyStr("a")>>))
                => query = "INSERT INTO t  VALUES (1, 'a')"

\* the conditions argument is falsy or a list of well-formed 4-tuples
UsableConditions(c) == ~Truthy(c) \/ WellFormed(c)

\* "<c1> = '<v1>', <c2> = '<v2>', ..." of a dict, in insertion order, read
\* off from its last pair backwards
RECURSIVE Assignments(_)
Assignments(pairs) ==
    IF Len(pairs) = 0 THEN ""
    ELSE LET last == pairs[Len(pairs)]
         IN  (IF Len(pairs) = 1 THEN ""
              ELSE Assignments(SubSeq(pairs, 1, Len(pairs) - 1)) \o ", ")
             \o last.items[1].s \o " = '" \o last.items[2].s \o "'"

\* C24: update of either class builds "UPDATE <name> SET <c1> = '<v1>', <c2>
\* = '<v2>', ...[ WHERE <conditions>]" with the assignments in the insertion
\* order of fields and every new value in single quotes, and returns the
\* executor's True.
C24_Update ==
    (BodyRan /\ call.op = "update" /\ UsableConditions(call.args.conditions_list))
    => LET a == call.args
           expected == "UPDATE " \o a.table_name \o " SET "
                       \o Assignments(a.fields.items)
                       \o WhereClause(a.conditions_list)
       IN  /\ query = expected
           /\ executor = "execute_query"
           /\ Connected => Statements(io) = <<expected>>
           /\ (Connected /\ db.execute = "") => outcome = Return(PyTrue)

C24_Witness ==
    /\ BodyRan /\ call.op = "update"
    /\ Statements(io) = <<"UPDATE t SET id = 'integer', date = 'text' WHERE a = '1'">>
    /\ outcome = Return(PyTrue)

\* the aggregate name of each aggregate reader
AggregateName(op) ==
    CASE op = "count" -> "COUNT"
      [] op = "avg" -> "AVG"
      [] op = "sum" -> "SUM"
      [] op = "min" -> "MIN"
      [] op = "max" -> "MAX"

Aggregates == {"count", "avg", "sum", "min", "max"}

\* C25: count, avg, sum, min and max of either class build "SELECT
\* <AGG>(<column>) FROM <name>[ WHERE <conditions>]" with AGG = COUNT, AVG,
\* SUM, MIN, MAX respectively and send it through get_query_result.
C25_Aggregates ==
    (BodyRan /\ call.op \in Aggregates /\ UsableConditions(call.args.conditions_list))
    => LET a == call.args
           expected == "SELECT " \o AggregateName(call.op) \o "(" \o a.column
                       \o ") FROM " \o a.table_name \o WhereClause(a.conditions_list)
       IN  /\ query = expected
           /\ executor = "get_query_result"
           /\ Connected => Statements(io) = <<expected>>

C25_Witness ==
    /\ BodyRan /\ call.op = "min" /\ Truthy(call.args.conditions_list)
    /\ Len(Statements(io)) = 1
    /\ outcome.kind = "return" /\ outcome.val # PyNone

\* C26: an object of either class constructed with (db_name, db_user,
\* db_password, db_host) has dsn = "dbname=<db_name> user=<db_user>
\* password=<db_password> host=<db_host>", the four values in that order
\* with single spaces between them, whatever further positional or keyword
\* arguments the constructor was given.
C26_Dsn ==
    call.op = "__init__"
    => LET c == call.args
       IN  self[call.cls].dsn =
               "dbname=" \o c.db_name \o " user=" \o c.db_user
               \o " password=" \o c.db_password \o " host=" \o c.db_host

C26_Witness ==
    /\ call.op = "__init__" /\ call.cls = "AsyncLemkPgApi"
    /\ call.args.args = <<"5432", "x">> /\ call.args.kwargs # {}
    /\ self["AsyncLemkPgApi"].dsn = "dbname=shop user=u password=pass host=db"
    /\ self["LemkPgApi"].dsn = "dbname=demo_db user=postgres password= host=127.0.0.1"

\* the driver raised nothing up to and including cursor.execute
Executed == Connected /\ db.execute = ""

\* the call ended with an exception of the driver
DriverRaised ==
    /\ outcome.kind = "raise"
    /\ outcome.exc.msg = "driver"
    /\ outcome.exc.type \in {db.pool, db.acquire, db.execute, db.fetch}

\* C27: raw_query of either class sends exactly the caller's string to the
\* driver, unchanged and unvalidated, through get_query_result: what it
\* returns is None or a one-element list holding the first row, never all
\* the rows and never True.
C27_RawQuery ==
    (BodyRan /\ call.op = "raw_query")
    => /\ query = call.args.query
       /\ executor = "get_query_result"
       /\ Connected => Statements(io) = <<call.args.query>>
       /\ outcome.kind = "return"
            => \/ outcome.val = PyNone
               \/ db.rows # <<>> /\ outcome.val = PyList(<<db.rows[1]>>)

C27_Witness ==
    /\ BodyRan /\ call.op = "raw_query" /\ call.args.query = "DELETE FROM t"
    /\ Len(db.rows) = 2
    /\ Statements(io) = <<"DELETE FROM t">>
    /\ outcome = Return(PyList(<<db.rows[1]>>))

\* C28: a read returns None or a list of exactly one row, never an empty
\* list: when the statement yields zero rows get_query_result returns None,
\* the same value it returns when iterating the cursor raises
\* ProgrammingError.
C28_ZeroRowsNone ==
    (BodyRan /\ executor = "get_query_result" /\ outcome.kind = "return")
    => /\ \/ outcome.val = PyNone
          \/ outcome.val.t = "list" /\ Len(outcome.val.items) = 1
       /\ (db.rows = <<>> /\ db.fetch = "") => outcome.val = PyNone
       /\ db.fetch = "ProgrammingError" => outcome.val = PyNone

C28_Witness ==
    /\ BodyRan /\ executor = "get_query_result" /\ call.op = "get_all"
    /\ Executed /\ db.rows = <<>> /\ db.fetch = ""
    /\ Len(Statements(io)) = 1
    /\ outcome = Return(PyNone)

\* the operations that take an optional condition list, and the argument
\* that holds it
JoinOps == {"get_with_join", "inner_join", "left_join", "right_join", "full_join"}
ConditionalOps == {"get", "update", "delete_records"} \cup JoinOps \cup Aggregates
ConditionsOf(op, a) ==
    IF op \in JoinOps THEN a.where_conditions_list ELSE a.conditions_list
WithoutConditions(a) ==
    [a EXCEPT !.conditions_list = PyNone, !.where_conditions_list = PyNone]

\* C29: in get, update, delete_records, the joins and the aggregates a falsy
\* conditions argument (None, an empty list, an empty tuple) skips
\* get_conditions: the call does what it does with conditions None, the
\* statement has no WHERE clause and no validation error is raised;
\* delete_records(name, []) sends "DELETE FROM <name>" and update(name,
\* fields, []) sends the UPDATE without a filter.
C29_FalsyConditionsSkipped ==
    (BodyRan /\ call.op \in ConditionalOps
       /\ ~Truthy(ConditionsOf(call.op, call.args)))
    => LET a == call.args
           unconditional == Body(call.cls, call.op, WithoutConditions(a))
       IN  /\ query = unconditional.query
           /\ executor = unconditional.executor
           /\ (unconditional.exc = NoExc /\ Connected)
                => Statements(io) = <<unconditional.query>>
           /\ outcome.kind = "raise"
                => DriverRaised \/ outcome.exc = unconditional.exc
           /\ call.op = "delete_records" => query = "DELETE FROM " \o a.table_name
           /\ call.op = "update"
                => query = "UPDATE " \o a.table_name \o " SET "
                           \o Assignments(a.fields.items)
           /\ call.op \in Aggregates
                => query = "SELECT " \o AggregateName(call.op) \o "(" \o a.column
                           \o ") FROM " \o a.table_name

C29_Witness ==
    /\ BodyRan /\ call.op = "delete_records"
    /\ call.args.conditions_list = PyList(<<>>)
    /\ Statements(io) = <<"DELETE FROM t">>
    /\ outcome = Return(PyTrue)

\* C30: get_all builds "SELECT * FROM <name>" followed by " ORDER BY
\* <order_by> <sort_type>" exactly when both order_by and sort_type are
\* given; with only one of them given there is no ORDER BY clause and no
\* error; get follows the same rule.
C30_OrderByNeedsBoth ==
    (BodyRan /\ call.op \in {"get_all", "get"}
       /\ UsableConditions(call.args.conditions_list))
    => LET a == call.args
           both == a.order_by # PyNone /\ a.sort_type # PyNone
           clause == IF both
                     THEN " ORDER BY " \o a.order_by.s \o " " \o a.sort_type.s
                     ELSE ""
           unsorted == Body(call.cls, call.op,
                            [a EXCEPT !.order_by = PyNone, !.sort_type = PyNone])
       IN  /\ call.op = "get_all" => query = "SELECT * FROM " \o a.table_name \o clause
           /\ unsorted.exc = NoExc /\ query = unsorted.query \o clause
           /\ Connected => Statements(io) = <<query>>
           /\ outcome.kind = "raise" => DriverRaised

C30_Witness ==
    /\ BodyRan /\ call.op = "get_all"
    /\ call.args.order_by = PyStr("a") /\ call.args.sort_type = PyNone
    /\ Statements(io) = <<"SELECT * FROM t">>
    /\ outcome.kind = "return"

=============================================================================
